---------------------------- MODULE Spec2Model ----------------------------
(***************************************************************************)
(* A model of captn's update decision and execution pipeline: the version  *)
(* classifier and the policy engine of app/utils/common.py, the tag        *)
(* pipeline of app/utils/registries/generic.py, the recreate protocol of   *)
(* app/utils/engines/docker.py and the per-container loop of               *)
(* app/__main__.py.                                                        *)
(*                                                                         *)
(* Tag strings are sequences of one-character strings, so that the string  *)
(* conversions of the code (regex substitution, split, int(), str()) are   *)
(* computed and not assumed.                                               *)
(***************************************************************************)
EXTENDS Integers, Sequences, FiniteSets, TLC

VARIABLES
    fpc,        \* "call" before the function under check is applied, then "return"
    fin,        \* its arguments (a record)
    fout,       \* its result (a record)
    cfg,        \* the configuration and command line of the cycle
    registry,   \* the tags the registry answers with
    engine,     \* the Docker engine: its containers and images
    calls,      \* the mutating engine calls issued so far
    faults,     \* the engine calls that have failed so far
    pc,         \* the position of the cycle
    mn,         \* the locals of main()
    rc,         \* the locals of recreate_container()
    hist,       \* what the cycle has done per candidate, in order
    nm          \* notification_manager.update_stats

fnVars == <<fpc, fin, fout>>
orcVars == <<cfg, registry, engine, calls, faults, pc, mn, rc, hist, nm>>
vars == <<fpc, fin, fout, cfg, registry, engine, calls, faults, pc, mn, rc, hist, nm>>

\* the cycle does not run while a single function is under check
OrcIdle ==
    /\ cfg = <<>> /\ registry = <<>> /\ engine = <<>> /\ calls = {}
    /\ faults = 0 /\ pc = "idle" /\ mn = <<>> /\ rc = <<>> /\ hist = <<>>
    /\ nm = <<>>

---------------------------------------------------------------------------
(* Characters and strings                                                  *)

DigitSeq == <<"0", "1", "2", "3", "4", "5", "6", "7", "8", "9">>
Digits == {DigitSeq[k] : k \in 1..10}

\* str.isdigit() of one character
IsDigit(c) == c \in Digits

\* int() of one decimal digit
DigitVal(c) == (CHOOSE k \in 1..10 : DigitSeq[k] = c) - 1

\* str.isdigit(): non-empty and every character a digit
isdigit(s) == Len(s) > 0 /\ \A k \in 1..Len(s) : IsDigit(s[k])

\* str.lower() of one character (the alphabet holds one upper-case letter)
LowerChar(c) == IF c = "V" THEN "v" ELSE c

lower(s) == [k \in 1..Len(s) |-> LowerChar(s[k])]

RECURSIVE StripLeft(_, _)
StripLeft(s, cs) ==
    IF Len(s) > 0 /\ s[1] \in cs THEN StripLeft(Tail(s), cs) ELSE s

RECURSIVE StripRight(_, _)
StripRight(s, cs) ==
    IF Len(s) > 0 /\ s[Len(s)] \in cs
    THEN StripRight(SubSeq(s, 1, Len(s) - 1), cs) ELSE s

\* str.strip(chars)
strip(s, cs) == StripRight(StripLeft(s, cs), cs)

\* re.sub(r"[cs]+", ".", s): every maximal run of characters of cs becomes one dot
RECURSIVE SubRuns(_, _, _)
SubRuns(s, cs, inRun) ==
    IF Len(s) = 0 THEN <<>>
    ELSE IF s[1] \in cs
         THEN (IF inRun THEN <<>> ELSE <<".">>) \o SubRuns(Tail(s), cs, TRUE)
         ELSE <<s[1]>> \o SubRuns(Tail(s), cs, FALSE)

\* str.split(sep): the pieces between separators, [""] for the empty string
RECURSIVE SplitAcc(_, _, _)
SplitAcc(s, sep, cur) ==
    IF Len(s) = 0 THEN <<cur>>
    ELSE IF s[1] = sep THEN <<cur>> \o SplitAcc(Tail(s), sep, <<>>)
         ELSE SplitAcc(Tail(s), sep, Append(cur, s[1]))

split(s, sep) == SplitAcc(s, sep, <<>>)

\* int(s) of a string of decimal digits
RECURSIVE ToInt(_)
ToInt(s) ==
    IF Len(s) = 0 THEN 0
    ELSE 10 * ToInt(SubSeq(s, 1, Len(s) - 1)) + DigitVal(s[Len(s)])

\* str(n) of an integer
RECURSIVE NatToStr(_)
NatToStr(n) ==
    IF n < 10 THEN <<DigitSeq[n + 1]>>
    ELSE NatToStr(n \div 10) \o <<DigitSeq[(n % 10) + 1]>>

IntToStr(n) == IF n < 0 THEN <<"-">> \o NatToStr(-n) ELSE NatToStr(n)

\* ".".join(parts)
RECURSIVE Join(_)
Join(parts) ==
    IF Len(parts) = 0 THEN <<>>
    ELSE IF Len(parts) = 1 THEN parts[1]
         ELSE parts[1] \o <<".">> \o Join(Tail(parts))

\* parts[:n]
Take(s, n) == SubSeq(s, 1, IF Len(s) < n THEN Len(s) ELSE n)

---------------------------------------------------------------------------
(* Version classifier (app/utils/common.py)                                *)

INVALID == <<-1, -1, -1, -1>>

Alphabet == Digits \cup {".", "-", "+", " ", "_", "V", "a", "b", "d", "e", "i", "l", "s", "t", "u", "v"}
NonVersionChars == {c \in Alphabet : ~IsDigit(c) /\ c # "."}

\* the separators are not turned into dots
normalize_version_dots_only(version) ==
    LET parts == split(strip(lower(version), {" ", "."}), ".")
        head == Take(parts, 4)
    IN  IF ~(\A k \in 1..Len(head) : isdigit(head[k])) THEN INVALID
        ELSE [k \in 1..4 |-> IF k <= Len(head) THEN ToInt(head[k]) ELSE 0]

normalize_version(version) ==
    LET v1 == strip(lower(version), {" "})
        v2 == SubRuns(v1, NonVersionChars, FALSE)
        v3 == strip(SubRuns(v2, {"."}, FALSE), {"."})
        parts == split(v3, ".")
        head == Take(parts, 4)
    IN  IF ~(\A k \in 1..Len(head) : isdigit(head[k])) THEN INVALID
        ELSE [k \in 1..4 |-> IF k <= Len(head) THEN ToInt(head[k]) ELSE 0]

\* ^(20)\d{2}\.(0[1-9]|1[0-2])\.(0[1-9]|[12]\d|3[01])\.([0-9]*)$
date_pattern(s) ==
    LET p == split(s, ".")
    IN  /\ Len(p) = 4
        /\ Len(p[1]) = 4 /\ p[1][1] = "2" /\ p[1][2] = "0"
        /\ IsDigit(p[1][3]) /\ IsDigit(p[1][4])
        /\ Len(p[2]) = 2
        /\ \/ p[2][1] = "0" /\ p[2][2] \in (Digits \ {"0"})
           \/ p[2][1] = "1" /\ p[2][2] \in {"0", "1", "2"}
        /\ Len(p[3]) = 2
        /\ \/ p[3][1] = "0" /\ p[3][2] \in (Digits \ {"0"})
           \/ p[3][1] \in {"1", "2"} /\ IsDigit(p[3][2])
           \/ p[3][1] = "3" /\ p[3][2] \in {"0", "1"}
        /\ \A k \in 1..Len(p[4]) : IsDigit(p[4][k])

\* ^\d+\.\d+\.\d+  (a prefix match)
semantic_pattern(s) ==
    LET p == split(s, ".")
    IN  /\ Len(p) >= 3
        /\ isdigit(p[1]) /\ isdigit(p[2])
        /\ Len(p[3]) > 0 /\ IsDigit(p[3][1])

\* ^\d+$
numeric_pattern(s) == isdigit(s)

detect_version_scheme(version) ==
    LET n == normalize_version(version)
        s == Join([k \in 1..4 |-> IntToStr(n[k])])
    IN  IF date_pattern(s) THEN "date"
        ELSE IF semantic_pattern(s) THEN "semantic"
        ELSE IF numeric_pattern(s) THEN "numeric"
        ELSE "unknown"

\* equal versions are not recognised
compare_semantic_versions_no_equal(old_version, new_version) ==
    LET o == normalize_version(old_version)
        n == normalize_version(new_version)
    IN  IF o = INVALID \/ n = INVALID THEN "unknown"
        ELSE IF n[1] > o[1] THEN "major"
        ELSE IF n[2] > o[2] THEN "minor"
        ELSE IF n[3] > o[3] THEN "patch"
        ELSE IF n[4] > o[4] THEN "build"
        ELSE "unknown"

compare_semantic_versions(old_version, new_version) ==
    LET o == normalize_version(old_version)
        n == normalize_version(new_version)
    IN  IF o = INVALID \/ n = INVALID THEN "unknown"
        ELSE IF n[1] > o[1] THEN "major"
        ELSE IF n[2] > o[2] THEN "minor"
        ELSE IF n[3] > o[3] THEN "patch"
        ELSE IF n[4] > o[4] THEN "build"
        ELSE IF old_version = new_version THEN "digest"
        ELSE "unknown"

IsLeap(y) == (y % 4 = 0 /\ y % 100 # 0) \/ y % 400 = 0

DaysInMonth(y, m) ==
    IF m = 2 THEN (IF IsLeap(y) THEN 29 ELSE 28)
    ELSE IF m \in {4, 6, 9, 11} THEN 30 ELSE 31

RECURSIVE DaysBeforeMonth(_, _)
DaysBeforeMonth(y, m) ==
    IF m <= 1 THEN 0 ELSE DaysBeforeMonth(y, m - 1) + DaysInMonth(y, m - 1)

\* datetime.toordinal()
Ordinal(y, m, d) ==
    365 * (y - 1) + ((y - 1) \div 4) - ((y - 1) \div 100) + ((y - 1) \div 400)
        + DaysBeforeMonth(y, m) + d

\* strptime's %m and %d, and the fallback patterns: one or two digits, a
\* leading zero allowed, within 1..hi
MonthOrDay(s, hi) ==
    /\ Len(s) \in {1, 2} /\ isdigit(s)
    /\ ToInt(s) >= 1 /\ ToInt(s) <= hi

\* one format of parse_date: -1 stands for ValueError
ParseWith(date_str, sep) ==
    LET p == split(date_str, sep)
    IN  IF /\ Len(p) = 3
           /\ Len(p[1]) = 4 /\ isdigit(p[1]) /\ ToInt(p[1]) >= 1
           /\ MonthOrDay(p[2], 12) /\ MonthOrDay(p[3], 31)
           /\ ToInt(p[3]) <= DaysInMonth(ToInt(p[1]), ToInt(p[2]))
        THEN Ordinal(ToInt(p[1]), ToInt(p[2]), ToInt(p[3]))
        ELSE -1

parse_date(date_str) ==
    IF ParseWith(date_str, "-") # -1 THEN ParseWith(date_str, "-")
    ELSE ParseWith(date_str, ".")

compare_date_versions(old_version, new_version) ==
    LET old_date == parse_date(old_version)
        new_date == parse_date(new_version)
    IN  IF old_date = -1 \/ new_date = -1 THEN "unknown"
        ELSE IF new_date > old_date
             THEN (IF new_date - old_date >= 365 THEN "major"
                   ELSE IF new_date - old_date > 30 THEN "minor"
                   ELSE "patch")
        ELSE IF old_date = new_date THEN "digest"
        ELSE "unknown"

compare_numeric_versions(old_version, new_version) ==
    IF ~isdigit(old_version) \/ ~isdigit(new_version) THEN "unknown"
    ELSE LET old_num == ToInt(old_version)
             new_num == ToInt(new_version)
         IN  IF new_num > old_num
             THEN (IF new_num - old_num > 10 THEN "major"
                   ELSE IF new_num - old_num > 1 THEN "minor"
                   ELSE "patch")
             ELSE IF old_num = new_num THEN "digest"
             ELSE "unknown"

compare_versions(old_version, new_version) ==
    LET old_scheme == detect_version_scheme(old_version)
        new_scheme == detect_version_scheme(new_version)
    IN  IF old_scheme # new_scheme THEN "scheme_change"
        ELSE IF old_scheme = "semantic"
             THEN compare_semantic_versions(old_version, new_version)
        ELSE IF old_scheme = "date"
             THEN compare_date_versions(old_version, new_version)
        ELSE IF old_scheme = "numeric"
             THEN compare_numeric_versions(old_version, new_version)
        ELSE "unknown"

\* digest.rsplit(":", 1)[-1]: a digest is the sequence of its colon-separated parts
normalize_digest(d) == IF Len(d) > 1 THEN <<d[Len(d)]>> ELSE d

\* the override applied to "digest" only
get_update_type_digest_only(old_version, new_version, local_digests, remote_digest) ==
    LET remote == normalize_digest(remote_digest)
        locals == {normalize_digest(local_digests[k]) : k \in 1..Len(local_digests)}
        update_type == compare_versions(old_version, new_version)
    IN  IF update_type = "digest"
        THEN (IF remote \notin locals THEN "digest" ELSE "none")
        ELSE update_type

get_update_type(old_version, new_version, local_digests, remote_digest) ==
    LET remote == normalize_digest(remote_digest)
        locals == {normalize_digest(local_digests[k]) : k \in 1..Len(local_digests)}
        update_type == compare_versions(old_version, new_version)
    IN  IF update_type \in {"digest", "unknown"}
        THEN (IF remote \notin locals THEN "digest" ELSE "none")
        ELSE update_type

---------------------------------------------------------------------------
(* Policy engine (app/utils/common.py)                                     *)

\* dict.get(key, default) on a function used as a dict
Get(d, key, default) == IF key \in DOMAIN d THEN d[key] ELSE default

EmptyDict == [x \in {} |-> TRUE]

\* parse_duration(duration_str, "s"): ^(\d+)([smhd])$, -1 stands for ValueError
parse_duration_s(duration_str) ==
    LET n == Len(duration_str)
    IN  IF n >= 2 /\ isdigit(SubSeq(duration_str, 1, n - 1))
           /\ duration_str[n] \in {"s", "m", "h", "d"}
        THEN LET value == ToInt(SubSeq(duration_str, 1, n - 1))
             IN  CASE duration_str[n] = "s" -> value
                   [] duration_str[n] = "m" -> value * 60
                   [] duration_str[n] = "h" -> value * 3600
                   [] duration_str[n] = "d" -> value * 86400
        ELSE -1

\* fnmatch(name, pattern) for the patterns of the model: a literal or "*"
fnmatch(name, pattern) == pattern = "*" \/ pattern = name

\* next((r for p, r in section.items() if fnmatch(ref, p)), None); "" is None
FirstMatch(section, ref) ==
    LET hits == {k \in 1..Len(section) : fnmatch(ref, section[k][1])}
    IN  IF hits = {} THEN ""
        ELSE section[CHOOSE k \in hits : \A j \in hits : k <= j][2]

\* image_reference.split(":", 1)[0].split("@", 1)[0] on a reference given as
\* its tokens, e.g. <<"nginx", ":", "1.0">>
RECURSIVE UpTo(_, _)
UpTo(ref, seps) ==
    IF Len(ref) = 0 \/ ref[1] \in seps THEN <<>>
    ELSE <<ref[1]>> \o UpTo(Tail(ref), seps)

strip_reference(image_reference) == UpTo(image_reference, {":", "@"})

\* an image reference that is None
None == <<>>

\* the rule name assignment of get_update_permit: by name, by image, by id,
\* then "default"; a rule that is not defined falls back to "default".
\* fnmatch(None, p) raises TypeError, so the walk through a non-empty
\* by-image or by-id section raises when the image reference is None
resolve_rule(config, container_name, image_reference) ==
    LET ref == IF Len(image_reference) = 1 THEN image_reference[1] ELSE ""
        by_name == Get(config.assignmentsByName, container_name, "")
        by_image == FirstMatch(config.assignmentsByImage, ref)
        by_id == FirstMatch(config.assignmentsById, ref)
        original == IF by_name # "" THEN by_name
                    ELSE IF by_image # "" THEN by_image
                    ELSE IF by_id # "" THEN by_id
                    ELSE "default"
        raised == /\ by_name = ""
                  /\ image_reference = None
                  /\ Len(config.assignmentsByImage) + Len(config.assignmentsById) > 0
    IN  IF raised
        THEN [rule_name |-> "", rule_name_original |-> "", raised |-> TRUE]
        ELSE [rule_name |-> IF original \in DOMAIN config.rules THEN original ELSE "default",
              rule_name_original |-> original, raised |-> FALSE]

\* bool(age): None is <<>>, a number n is <<n>>
Truthy(age) == age # <<>> /\ age[1] # 0

\* the lag counted without the candidate itself
version_lag_exclusive(update_type, new, latest) ==
    CASE update_type = "major" -> latest[1] - new[1]
      [] update_type = "minor" -> latest[2] - new[2]
      [] update_type = "patch" -> latest[3] - new[3]
      [] update_type = "build" -> latest[4] - new[4]
      [] OTHER -> 0

\* the lag of a candidate behind the newest tag along the category's axis
version_lag(update_type, new, latest) ==
    CASE update_type = "major" -> (latest[1] - new[1]) + 1
      [] update_type = "minor" -> (latest[2] - new[2]) + 1
      [] update_type = "patch" -> (latest[3] - new[3]) + 1
      [] update_type = "build" -> (latest[4] - new[4]) + 1
      [] OTHER -> 0

\* every listed position has to be non-zero
conditions_satisfied_all(require, new) ==
    \A k \in 1..Len(require) :
        \/ require[k] = "major" /\ new[1] > 0
        \/ require[k] = "minor" /\ new[2] > 0
        \/ require[k] = "patch" /\ new[3] > 0
        \/ require[k] = "build" /\ new[4] > 0

\* a "require" list is satisfied when the new version has a non-zero component
\* at one of the listed positions
conditions_satisfied(require, new) ==
    \E k \in 1..Len(require) :
        \/ require[k] = "major" /\ new[1] > 0
        \/ require[k] = "minor" /\ new[2] > 0
        \/ require[k] = "patch" /\ new[3] > 0
        \/ require[k] = "build" /\ new[4] > 0

\* a category missing from "allow" counts as allowed
allow_lookup_absent_true(rule, update_type) ==
    Get(Get(rule, "allow", EmptyDict), update_type, TRUE)

\* rule.get("allow", {}).get(update_type, False)
allow_lookup(rule, update_type) ==
    Get(Get(rule, "allow", EmptyDict), update_type, FALSE)

\* a rejection returns the reference without the tag
Permit_untagged_rejection(allowed, names, reason, ref, new_version) ==
    [allowed |-> allowed, rule_name |-> names.rule_name,
     rule_name_original |-> names.rule_name_original, reason |-> reason,
     new_image_reference |-> IF allowed THEN ref \o <<":", new_version>> ELSE ref,
     raised |-> names.raised]

Permit(allowed, names, reason, ref, new_version) ==
    [allowed |-> allowed, rule_name |-> names.rule_name,
     rule_name_original |-> names.rule_name_original, reason |-> reason,
     new_image_reference |-> ref \o <<":", new_version>>, raised |-> names.raised]

get_update_permit(config, container_name, image_reference, update_type, age, old_version, new_version, latest_version) ==
    LET ref == strip_reference(image_reference)
        new == normalize_version(new_version)
        latest == normalize_version(latest_version)
        names == resolve_rule(config, container_name, ref)
        rule == Get(config.rules, names.rule_name, EmptyDict)
        allowed == allow_lookup(rule, update_type)
        conditions == Get(rule, "conditions", EmptyDict)
        lagPolicy == Get(rule, "lagPolicy", EmptyDict)
        configured_lag == Get(lagPolicy, update_type, 0)
        min_age_config == Get(rule, "minImageAge", <<"3", "0", "m">>)
        min_age_s == parse_duration_s(min_age_config)
    IN  IF allowed /\ update_type \in DOMAIN conditions
           /\ ~conditions_satisfied(conditions[update_type], new)
        THEN Permit(FALSE, names, "Conditions", ref, new_version)
        ELSE IF allowed /\ configured_lag # 0 /\ latest_version # <<>>
                /\ new_version # <<>>
                /\ version_lag(update_type, new, latest) <= configured_lag
        THEN Permit(FALSE, names, "LagPolicy", ref, new_version)
        ELSE IF allowed /\ min_age_config # <<>> /\ Truthy(age)
                /\ min_age_s # -1 /\ age[1] * 60 < min_age_s
        THEN Permit(FALSE, names, "MinImageAge", ref, new_version)
        ELSE Permit(allowed, names, "General", ref, new_version)

\* the age main passes: int(total_seconds / 60) of now - last_updated, None
\* when the tag has no last_updated; int() truncates toward zero
image_age(last_updated) ==
    IF last_updated = <<>> THEN <<>>
    ELSE IF last_updated[1] >= 0 THEN <<last_updated[1] \div 60>>
    ELSE <<-((-last_updated[1]) \div 60)>>

\* the pre-check of main: the allowed categories of the rule of a container,
\* returned with the rule's name and the name assigned before the fallback
get_container_allowed_update_types(config, container_name, image_reference) ==
    LET names == resolve_rule(config, container_name, UpTo(image_reference, {":"}))
        rule == Get(config.rules, names.rule_name, EmptyDict)
        allow == Get(rule, "allow", EmptyDict)
    IN  [allowed_types |-> {t \in DOMAIN allow : allow[t]},
         rule_name |-> names.rule_name,
         rule_name_original |-> names.rule_name_original,
         raised |-> names.raised]

---------------------------------------------------------------------------
(* Tag pipeline (app/utils/registries/generic.py)                          *)

extract_tag_name(tag) == tag.name

\* the pattern as a sequence of tokens: "[0-9]+" or an escaped character
RECURSIVE TagRegexAcc(_, _)
TagRegexAcc(template, lastDigit) ==
    IF Len(template) = 0 THEN <<>>
    ELSE IF IsDigit(template[1])
         THEN (IF lastDigit THEN <<>> ELSE <<"[0-9]+">>)
              \o TagRegexAcc(Tail(template), TRUE)
         ELSE <<template[1]>> \o TagRegexAcc(Tail(template), FALSE)

generate_tag_regex(template) == TagRegexAcc(template, FALSE)

\* pattern.match(s) of ^regex$
RECURSIVE RegexMatch(_, _)
RegexMatch(regex, s) ==
    IF Len(regex) = 0 THEN Len(s) = 0
    ELSE IF regex[1] = "[0-9]+"
         THEN /\ Len(s) > 0 /\ IsDigit(s[1])
              /\ \/ RegexMatch(regex, Tail(s))
                 \/ RegexMatch(Tail(regex), Tail(s))
         ELSE Len(s) > 0 /\ s[1] = regex[1] /\ RegexMatch(Tail(regex), Tail(s))

RECURSIVE SelectSeqBy(_, _, _)
SelectSeqBy(tags, regex, k) ==
    IF k > Len(tags) THEN <<>>
    ELSE (IF RegexMatch(regex, extract_tag_name(tags[k])) THEN <<tags[k]>> ELSE <<>>)
         \o SelectSeqBy(tags, regex, k + 1)

filter_image_tags(tags, imageTag) ==
    SelectSeqBy(tags, generate_tag_regex(imageTag), 1)

\* code points of the alphabet, for the comparison of strings
CharOrd(c) ==
    CASE c = " " -> 32 [] c = "-" -> 45 [] c = "." -> 46
      [] c \in Digits -> 48 + DigitVal(c)
      [] c = "V" -> 86 [] c = "_" -> 95 [] c = "a" -> 97 [] c = "e" -> 101
      [] c = "l" -> 108 [] c = "s" -> 115 [] c = "t" -> 116 [] c = "v" -> 118

RECURSIVE StrLess(_, _)
StrLess(a, b) ==
    IF Len(b) = 0 THEN FALSE
    ELSE IF Len(a) = 0 THEN TRUE
    ELSE IF a[1] # b[1] THEN CharOrd(a[1]) < CharOrd(b[1])
    ELSE StrLess(Tail(a), Tail(b))

TupleLess(a, b) ==
    \E k \in 1..4 : a[k] < b[k] /\ \A j \in 1..(k - 1) : a[j] = b[j]

\* sort_key(x) < sort_key(y): (0, version tuple) or (1, lower-cased name)
KeyLess(x, y) ==
    LET nx == normalize_version(extract_tag_name(x))
        ny == normalize_version(extract_tag_name(y))
    IN  IF nx # INVALID /\ ny # INVALID THEN TupleLess(nx, ny)
        ELSE IF nx # INVALID THEN TRUE
        ELSE IF ny # INVALID THEN FALSE
        ELSE StrLess(lower(extract_tag_name(x)), lower(extract_tag_name(y)))

\* insert x into a list sorted descending, after the elements it does not exceed
RECURSIVE InsertDesc(_, _)
InsertDesc(sorted, x) ==
    IF Len(sorted) = 0 THEN <<x>>
    ELSE IF KeyLess(sorted[1], x) THEN <<x>> \o sorted
    ELSE <<sorted[1]>> \o InsertDesc(Tail(sorted), x)

RECURSIVE SortAcc(_, _, _)
SortAcc(tags, k, acc) ==
    IF k > Len(tags) THEN acc ELSE SortAcc(tags, k + 1, InsertDesc(acc, tags[k]))

\* sorted(tags, key=sort_key, reverse=True): stable, descending
sort_tags(tags) == SortAcc(tags, 1, <<>>)

RECURSIVE truncate_tags(_, _)
truncate_tags(tags, imageTag) ==
    IF Len(tags) = 0 THEN <<>>
    ELSE IF extract_tag_name(tags[1]) = imageTag THEN <<tags[1]>>
    ELSE <<tags[1]>> \o truncate_tags(Tail(tags), imageTag)

\* the tail of get_image_tags: filter, sort, truncate
get_image_tags(tags, imageTag) ==
    truncate_tags(sort_tags(filter_image_tags(tags, imageTag)), imageTag)

---------------------------------------------------------------------------
(* Inputs of the pure-function specifications                              *)

\* bounds of the input sets
MaxTagLen == 2
MaxRawTags == 3
MaxLag == 2

\* "<a>.<b>.<c>"
Ver3(a, b, c) == IntToStr(a) \o <<".">> \o IntToStr(b) \o <<".">> \o IntToStr(c)

\* two decimal digits, zero-padded
Pad2(n) == <<DigitSeq[(n \div 10) + 1], DigitSeq[(n % 10) + 1]>>

\* "YYYY.MM.DD"
DateTag(y, m, d) == IntToStr(y) \o <<".">> \o Pad2(m) \o <<".">> \o Pad2(d)

DateYears == {2000, 2024, 2099}
DateTags == {DateTag(y, m, d) : y \in DateYears, m \in 1..12, d \in 1..31}

RECURSIVE StringsUpTo(_, _)
StringsUpTo(cs, n) ==
    IF n = 0 THEN {<<>>}
    ELSE LET shorter == StringsUpTo(cs, n - 1)
         IN  shorter \cup {Append(s, c) : s \in shorter, c \in cs}

latest_tag == <<"l", "a", "t", "e", "s", "t">>

NamedTags ==
    { Ver3(1, 18, 0), Ver3(1, 0, 0), Ver3(1, 0, 1), Ver3(2, 0, 0),
      <<"1", ".", "2">>, <<"5">>, <<"v">> \o Ver3(1, 0, 0),
      latest_tag,
      DateTag(2024, 2, 6), DateTag(2024, 12, 25), DateTag(2025, 12, 25),
      DateTag(2024, 11, 31), <<"v">> \o DateTag(2024, 12, 25),
      DateTag(2024, 12, 25) \o <<".", "1">>,
      <<"2", "0", "2", "4", "-", "1", "2", "-", "2", "5">>,
      <<"1", ".", "2", ".", "a">>, Ver3(1, 2, 3) \o <<".", "4", ".", "5">>,
      <<"v">> \o Ver3(1, 2, 3) \o <<"-", "b", "e", "t", "a", "+", "b", "u", "i", "l", "d", ".", "7">>,
      Ver3(1, 1, 9), Ver3(1, 2, 3), Ver3(1, 2, 3) \o <<".", "1">> }

ClassifyTags == NamedTags \cup StringsUpTo({"1", "2", ".", "a"}, MaxTagLen)

ClassifyPairs ==
    (ClassifyTags \X ClassifyTags)
        \cup ({Ver3(1, 18, 0)} \X DateTags)
        \cup {<<t, t>> : t \in DateTags}

\* a digest is the sequence of its colon-separated parts
LocalDigestLists ==
    { <<>>,
      << <<"nginx@sha256", "aaa">> >>,
      << <<"nginx@sha256", "aaa">>, <<"nginx@sha256", "bbb">> >> }
\* <<>> is a tag the registry gives no digest for
RemoteDigests == { <<"sha256", "aaa">>, <<"sha256", "ccc">>, <<"bbb">>, <<>> }

Categories ==
    {"major", "minor", "patch", "build", "digest", "scheme_change", "unknown"}

---------------------------------------------------------------------------
(* SpecClassify: get_update_type and the classifier applied to bounded tags *)

InitClassify ==
    /\ fpc = "call"
    /\ \E pair \in ClassifyPairs, ld \in LocalDigestLists, rd \in RemoteDigests :
           fin = [old_version |-> pair[1], new_version |-> pair[2],
                  local_digests |-> ld, remote_digest |-> rd]
    /\ fout = [none |-> TRUE]
    /\ OrcIdle

ClassifyCall ==
    /\ fpc = "call"
    /\ fpc' = "return"
    /\ fout' = [old_normalized |-> normalize_version(fin.old_version),
                old_scheme |-> detect_version_scheme(fin.old_version),
                new_scheme |-> detect_version_scheme(fin.new_version),
                compared |-> compare_versions(fin.old_version, fin.new_version),
                update_type |-> get_update_type(fin.old_version, fin.new_version,
                                                fin.local_digests, fin.remote_digest)]
    /\ UNCHANGED <<fin, orcVars>>

SpecClassify == InitClassify /\ [][ClassifyCall]_vars

---------------------------------------------------------------------------
(* Properties of the classifier (SpecClassify)                             *)

\* the hash of a digest: what follows its last colon
DigestHash(d) == IF Len(d) = 0 THEN d ELSE <<d[Len(d)]>>

RemoteIsLocal ==
    \E k \in 1..Len(fin.local_digests) :
        DigestHash(fin.local_digests[k]) = DigestHash(fin.remote_digest)

C8_DateTagsAreDates ==
    fpc = "return" =>
        /\ fin.new_version \in DateTags => fout.new_scheme = "date"
        /\ (fin.old_version = Ver3(1, 18, 0) /\ fin.new_version \in DateTags)
               => fout.compared = "scheme_change"

IsTuple4(n) == DOMAIN n = 1..4 /\ \A k \in 1..4 : n[k] \in Int

C23_UnparseableIsUnknown ==
    (/\ fpc = "return"
     /\ fout.old_normalized = INVALID
     /\ normalize_version(fin.new_version) = INVALID
     /\ ~RemoteIsLocal)
        => fout.update_type = "unknown"

\* the maximal digit runs of a string, in order
RECURSIVE DigitRuns(_, _)
DigitRuns(s, run) ==
    IF Len(s) = 0 THEN (IF run = <<>> THEN <<>> ELSE <<run>>)
    ELSE IF IsDigit(s[1]) THEN DigitRuns(Tail(s), Append(run, s[1]))
    ELSE (IF run = <<>> THEN <<>> ELSE <<run>>) \o DigitRuns(Tail(s), <<>>)

\* the first four digit runs as integers, zeros for the missing ones
RunTuple(runs) == [k \in 1..4 |-> IF k <= Len(runs) THEN ToInt(runs[k]) ELSE 0]

\* C24: normalize_version(t) is the tuple of the first four maximal digit
\* runs of t read as integers and padded with zeros to length four, and it
\* is the sentinel (-1,-1,-1,-1) exactly when t contains no digit.
C24_NormalizeIsDigitRuns ==
    fpc = "return" =>
        LET runs == DigitRuns(fin.old_version, <<>>)
        IN  /\ runs # <<>> => fout.old_normalized = RunTuple(runs)
            /\ (fout.old_normalized = INVALID) <=> (runs = <<>>)

\* a tag with a prefix, a suffix and five digit runs, or letters between them
C24_Witness ==
    /\ fpc = "return"
    /\ Len(DigitRuns(fin.old_version, <<>>)) >= 4
    /\ \E k \in 1..Len(fin.old_version) : fin.old_version[k] \in {"b", "-", "+"}
    /\ fout.old_normalized = <<1, 2, 3, 7>>

ComponentNames == <<"major", "minor", "patch", "build">>

\* C29: for every pair of semantic tags, also when the new tuple is the
\* smaller one, compare_versions names the first component in which the
\* normalized tuples differ, and returns digest for equal tuples.
C29_FirstDifferenceDecides ==
    (fpc = "return" /\ fout.old_scheme = "semantic" /\ fout.new_scheme = "semantic") =>
        LET o == fout.old_normalized
            n == normalize_version(fin.new_version)
            differ == {k \in 1..4 : o[k] # n[k]}
        IN  IF differ = {} THEN fout.compared = "digest"
            ELSE fout.compared =
                     ComponentNames[CHOOSE k \in differ : \A j \in differ : k <= j]

\* C30: for two tags that are each a single integer, compare_versions
\* classifies by the delta new - old: above 10 major, above 1 minor, 1 patch,
\* 0 digest, negative unknown.
C30_NumericDelta ==
    (fpc = "return" /\ isdigit(fin.old_version) /\ isdigit(fin.new_version)) =>
        LET delta == ToInt(fin.new_version) - ToInt(fin.old_version)
        IN  fout.compared = (IF delta > 10 THEN "major"
                             ELSE IF delta > 1 THEN "minor"
                             ELSE IF delta = 1 THEN "patch"
                             ELSE IF delta = 0 THEN "digest"
                             ELSE "unknown")

---------------------------------------------------------------------------
(* SpecPermit: main's call of get_update_permit on bounded rules           *)

StrictRule == "strict"

AllowOptions(c) == { EmptyDict, c :> FALSE, c :> TRUE }
ConditionOptions(c) ==
    { EmptyDict, c :> <<>>, c :> <<"major">>, c :> <<"minor", "patch", "build">> }
LagOptions(c) == { EmptyDict } \cup { c :> l : l \in 0..MaxLag }
MinAgeOptions ==
    { <<>>, <<"3", "0", "m">>, <<"1", "h">>, <<"9", "0", "s">>, <<"b", "a", "d">> }

Rules(c) ==
    { [allow |-> a, conditions |-> cd, lagPolicy |-> lg, minImageAge |-> ma] :
          a \in AllowOptions(c), cd \in ConditionOptions(c),
          lg \in LagOptions(c), ma \in MinAgeOptions \ {<<>>} }
    \cup
    { [allow |-> a, conditions |-> cd, lagPolicy |-> lg] :
          a \in AllowOptions(c), cd \in ConditionOptions(c), lg \in LagOptions(c) }

\* the rule under "default", or assigned by name to the container
Configs(rule) ==
    { [rules |-> ("default" :> rule), assignmentsByName |-> EmptyDict,
       assignmentsByImage |-> <<>>, assignmentsById |-> <<>>],
      [rules |-> (StrictRule :> rule), assignmentsByName |-> (<<"web">> :> StrictRule),
       assignmentsByImage |-> <<>>, assignmentsById |-> <<>>] }

\* seconds since the candidate was pushed; <<>> when the registry gives no time
LastUpdatedOptions == { <<>>, <<-90>>, <<30>>, <<600>>, <<2700>>, <<7200>> }

\* <<old, new, latest>>
VersionTriples ==
    { <<Ver3(1, 5, 7), Ver3(2, 0, 0), Ver3(2, 0, 0)>>,
      <<Ver3(1, 9, 9), Ver3(2, 0, 0), Ver3(2, 0, 0)>>,
      <<Ver3(3, 0, 0), Ver3(4, 0, 1), Ver3(5, 0, 1)>>,
      <<Ver3(3, 0, 0), Ver3(4, 0, 0), Ver3(5, 0, 0)>>,
      <<Ver3(1, 4, 0), Ver3(1, 5, 7), Ver3(2, 0, 0)>>,
      <<Ver3(1, 0, 0), Ver3(1, 0, 1), Ver3(1, 0, 3)>> }

InitPermit ==
    /\ fpc = "call"
    /\ \E c \in Categories : \E rule \in Rules(c) : \E config \in Configs(rule) :
       \E lu \in LastUpdatedOptions, v \in VersionTriples :
           fin = [config |-> config, container_name |-> <<"web">>,
                  image_reference |-> <<"nginx", ":", "1.0">>,
                  update_type |-> c, last_updated |-> lu,
                  old_version |-> v[1], new_version |-> v[2],
                  latest_version |-> v[3]]
    /\ fout = [none |-> TRUE]
    /\ OrcIdle

PermitCall ==
    /\ fpc = "call"
    /\ fpc' = "return"
    /\ fout' = get_update_permit(fin.config, fin.container_name, fin.image_reference,
                                 fin.update_type, image_age(fin.last_updated),
                                 fin.old_version, fin.new_version, fin.latest_version)
    /\ UNCHANGED <<fin, orcVars>>

SpecPermit == InitPermit /\ [][PermitCall]_vars

---------------------------------------------------------------------------
(* Properties of get_update_permit (SpecPermit)                            *)

\* the rule get_update_permit resolved for the call
ResolvedRule == fin.config.rules[fout.rule_name]

PassesConditions(rule) ==
    LET conditions == Get(rule, "conditions", EmptyDict)
    IN  fin.update_type \in DOMAIN conditions
            => conditions_satisfied(conditions[fin.update_type],
                                    normalize_version(fin.new_version))

PassesLag(rule) ==
    LET lag == Get(Get(rule, "lagPolicy", EmptyDict), fin.update_type, 0)
    IN  lag # 0 => version_lag(fin.update_type, normalize_version(fin.new_version),
                               normalize_version(fin.latest_version)) > lag

\* the rule's minimum image age in seconds, 30 minutes when the rule sets none
MinImageAgeOf(rule) ==
    parse_duration_s(Get(rule, "minImageAge", <<"3", "0", "m">>))

\* C4: for a category the rule does not allow (allow[c] false or absent),
\* get_update_permit returns allowed=false with reason General, whatever the
\* rule's conditions, lagPolicy and minImageAge and the candidate's versions
\* and age.
C4_NotAllowedIsGeneral ==
    fpc = "return" =>
        (~Get(Get(ResolvedRule, "allow", EmptyDict), fin.update_type, FALSE)
            => fout.allowed = FALSE /\ fout.reason = "General")

\* a category missing from "allow", with a condition the candidate fails, a
\* configured lag and a candidate younger than the minimum age
C4_Witness ==
    /\ fpc = "return"
    /\ fin.update_type \notin DOMAIN Get(ResolvedRule, "allow", EmptyDict)
    /\ ~PassesConditions(ResolvedRule)
    /\ Get(Get(ResolvedRule, "lagPolicy", EmptyDict), fin.update_type, 0) > 0
    /\ fin.last_updated = <<600>>
    /\ fout.allowed = FALSE /\ fout.reason = "General"

\* C5: a candidate with a known creation time that is younger than the rule's
\* minImageAge (30 minutes when unset), for a category that is allowed and
\* passes conditions and lag policy, is rejected with reason MinImageAge, for
\* every age below the threshold including less than one minute.
C5_YoungImageRejected ==
    fpc = "return" =>
        ((/\ fin.last_updated # <<>>
          /\ MinImageAgeOf(ResolvedRule) # -1
          /\ fin.last_updated[1] < MinImageAgeOf(ResolvedRule)
          /\ Get(Get(ResolvedRule, "allow", EmptyDict), fin.update_type, FALSE)
          /\ PassesConditions(ResolvedRule)
          /\ PassesLag(ResolvedRule))
            => fout.allowed = FALSE /\ fout.reason = "MinImageAge")

\* the component of a normalized version at a named position
ComponentAt(version, position) ==
    CASE position = "major" -> version[1]
      [] position = "minor" -> version[2]
      [] position = "patch" -> version[3]
      [] position = "build" -> version[4]
      [] OTHER -> 0

\* the rule allows the category of the call
AllowsCategory(rule) == Get(Get(rule, "allow", EmptyDict), fin.update_type, FALSE)

\* C16: when the rule has conditions[c].require for an allowed category c,
\* the candidate passes the conditions check iff the new version has a
\* component greater than zero at one of the required positions, whatever
\* the old version is; if it has none the result is allowed=false with
\* reason Conditions.
C16_ConditionsRequire ==
    fpc = "return" =>
        LET conditions == Get(ResolvedRule, "conditions", EmptyDict)
            new == normalize_version(fin.new_version)
        IN  (AllowsCategory(ResolvedRule) /\ fin.update_type \in DOMAIN conditions)
                => ((fout.allowed = FALSE /\ fout.reason = "Conditions")
                       <=> ~\E k \in 1..Len(conditions[fin.update_type]) :
                               ComponentAt(new, conditions[fin.update_type][k]) > 0)

\* 1.5.7 -> 2.0.0 as a major update with require = [minor, patch, build]
C16_Witness ==
    /\ fpc = "return"
    /\ fin.update_type = "major" /\ AllowsCategory(ResolvedRule)
    /\ fin.old_version = Ver3(1, 5, 7) /\ fin.new_version = Ver3(2, 0, 0)
    /\ Get(ResolvedRule, "conditions", EmptyDict)
           = ("major" :> <<"minor", "patch", "build">>)
    /\ fout.allowed = FALSE /\ fout.reason = "Conditions"

\* the categories whose lag is measured on a version component
LagCategories == {"major", "minor", "patch", "build"}

\* the lag the rule configures for the category of the call, 0 when none
ConfiguredLag(rule) == Get(Get(rule, "lagPolicy", EmptyDict), fin.update_type, 0)

\* (latest_c - new_c) + 1 on the component of the category of the call
LagOfCall ==
    (ComponentAt(normalize_version(fin.latest_version), fin.update_type)
        - ComponentAt(normalize_version(fin.new_version), fin.update_type)) + 1

\* C17 as stated: when the rule sets lagPolicy[c] = L >= 1 for an allowed
\* category c of major, minor, patch, build and the latest tag is known, the
\* candidate is rejected with reason LagPolicy iff (latest_c - new_c) + 1 <= L.
C17_LagDecides ==
    fpc = "return" =>
        ((/\ AllowsCategory(ResolvedRule)
          /\ fin.update_type \in LagCategories
          /\ ConfiguredLag(ResolvedRule) >= 1
          /\ fin.latest_version # <<>>)
            => ((fout.allowed = FALSE /\ fout.reason = "LagPolicy")
                   <=> LagOfCall <= ConfiguredLag(ResolvedRule)))

\* C17 (amended): when the rule sets lagPolicy[c] = L >= 1 for an allowed
\* category c of major, minor, patch, build, the latest tag is known and the
\* candidate has passed the conditions check, it is rejected with reason
\* LagPolicy iff (latest_c - new_c) + 1 <= L; a candidate that fails the
\* conditions check is rejected with reason Conditions whatever its lag; the
\* latest tag itself is rejected for every L >= 1.
C17_LagAfterConditions ==
    fpc = "return" =>
        ((/\ AllowsCategory(ResolvedRule)
          /\ fin.update_type \in LagCategories
          /\ ConfiguredLag(ResolvedRule) >= 1
          /\ fin.latest_version # <<>>)
            => /\ PassesConditions(ResolvedRule)
                   => ((fout.allowed = FALSE /\ fout.reason = "LagPolicy")
                          <=> LagOfCall <= ConfiguredLag(ResolvedRule))
               /\ ~PassesConditions(ResolvedRule)
                   => (fout.allowed = FALSE /\ fout.reason = "Conditions")
               /\ fin.new_version = fin.latest_version => fout.allowed = FALSE)

\* lagPolicy.major = 1, latest 5.0.0, new 4.0.0: lag 2 > 1, permitted
C17_Witness ==
    /\ fpc = "return"
    /\ fin.update_type = "major" /\ AllowsCategory(ResolvedRule)
    /\ ConfiguredLag(ResolvedRule) = 1
    /\ fin.new_version = Ver3(4, 0, 0) /\ fin.latest_version = Ver3(5, 0, 0)
    /\ LagOfCall = 2
    /\ fout.allowed = TRUE

\* the minimum-age check as get_update_permit takes it: the age main passes
\* in minutes is known, not zero, and below the rule's minimum
AgeCheckFails(rule) ==
    LET age == image_age(fin.last_updated)
    IN  /\ age # <<>> /\ age[1] # 0
        /\ MinImageAgeOf(rule) # -1
        /\ age[1] * 60 < MinImageAgeOf(rule)

\* the lag check: a configured lag that the candidate does not exceed
LagCheckFails(rule) ==
    /\ ConfiguredLag(rule) # 0
    /\ fin.latest_version # <<>> /\ fin.new_version # <<>>
    /\ LagOfCall <= ConfiguredLag(rule)

---------------------------------------------------------------------------
(* SpecResolve: the rule resolution of main's two policy calls             *)

\* bound of the by-image section
MaxAssignments == 2

\* three defined rules that allow different categories
ResolveRules ==
    [default |-> [allow |-> ("patch" :> TRUE)],
     r1 |-> [allow |-> ("major" :> TRUE)],
     r2 |-> [allow |-> ("minor" :> TRUE)]]

\* by-name assignments: none, one for the container (to a defined and to an
\* undefined rule), one for another container
ByNameOptions ==
    { EmptyDict, <<"web">> :> "r1", <<"web">> :> "zz", <<"db">> :> "r1" }

GlobOptions == {"nginx", "redis", "*"}

\* the ordered (glob, rule) pairs of a section, up to n of them
RECURSIVE Sections(_, _)
Sections(rules, n) ==
    IF n = 0 THEN {<<>>}
    ELSE LET shorter == Sections(rules, n - 1)
         IN  shorter \cup {Append(sec, <<g, r>>) : sec \in shorter, g \in GlobOptions, r \in rules}

ResolveConfigs ==
    { [rules |-> ResolveRules, assignmentsByName |-> bn,
       assignmentsByImage |-> bi, assignmentsById |-> bd] :
      bn \in ByNameOptions, bi \in Sections({"r1", "zz"}, MaxAssignments),
      bd \in Sections({"r2"}, 1) }

InitResolve ==
    /\ fpc = "call"
    /\ \E config \in ResolveConfigs :
           fin = [config |-> config, container_name |-> <<"web">>,
                  image_reference |-> <<"nginx", ":", "1.0">>, given |-> None]
    /\ fout = [none |-> TRUE]
    /\ OrcIdle

\* main's pre-check: get_container_allowed_update_types with image_reference=None
PreCheckCall ==
    /\ fpc = "call"
    /\ fpc' = "return"
    /\ fin' = [fin EXCEPT !.given = None]
    /\ fout' = get_container_allowed_update_types(fin.config, fin.container_name, None)
    /\ UNCHANGED orcVars

\* main's permit call for a candidate, with the reference of the local image
PermitResolveCall ==
    /\ fpc = "call"
    /\ fpc' = "return"
    /\ fin' = [fin EXCEPT !.given = fin.image_reference]
    /\ fout' = get_update_permit(fin.config, fin.container_name, fin.image_reference,
                                 "patch", <<>>, Ver3(1, 0, 0), Ver3(1, 0, 1), Ver3(1, 0, 1))
    /\ UNCHANGED orcVars

NextResolve == PreCheckCall \/ PermitResolveCall

SpecResolve == InitResolve /\ [][NextResolve]_vars

---------------------------------------------------------------------------
(* Properties of the rule resolution (SpecResolve)                         *)

\* the rule names a section assigns to the image the call was given, in the
\* order of the section; a call without an image reference matches no glob
AssignedBy(section) ==
    SelectSeq(section, LAMBDA entry :
        /\ fin.given # None
        /\ entry[1] = "*" \/ entry[1] = fin.given[1])

\* the rule name the precedence by-name, by-image, by-id, "default" picks
PickedRule ==
    IF fin.container_name \in DOMAIN fin.config.assignmentsByName
    THEN fin.config.assignmentsByName[fin.container_name]
    ELSE IF AssignedBy(fin.config.assignmentsByImage) # <<>>
    THEN AssignedBy(fin.config.assignmentsByImage)[1][2]
    ELSE IF AssignedBy(fin.config.assignmentsById) # <<>>
    THEN AssignedBy(fin.config.assignmentsById)[1][2]
    ELSE "default"

\* C15: rule resolution picks the by-name assignment of the container if one
\* exists, otherwise the first by-image glob that matches, otherwise the
\* first by-id glob that matches, otherwise "default"; if the picked name is
\* not a defined rule the effective rule is "default" and the picked name is
\* returned alongside it. Both policy calls of main resolve this way.
C15_RulePrecedence ==
    fpc = "return" =>
        /\ ~fout.raised
        /\ fout.rule_name_original = PickedRule
        /\ fout.rule_name = IF PickedRule \in DOMAIN fin.config.rules
                            THEN PickedRule ELSE "default"

\* what authorization resolves for the container with its image reference
AuthorizationRule ==
    get_update_permit(fin.config, fin.container_name, fin.image_reference,
                      "patch", <<>>, Ver3(1, 0, 0), Ver3(1, 0, 1), Ver3(1, 0, 1)).rule_name

\* C39: the preflight of a container completes without error for every
\* configuration of the three assignment tables, the rule it decides the
\* skip by is the rule authorization resolves for the container with its
\* image reference, and the container is skipped only if that rule allows no
\* category: a container whose image a by-image assignment gives a rule
\* allowing some category is not skipped.
C39_PreflightUsesAuthorizationRule ==
    (fpc = "return" /\ fin.given = None) =>
        /\ ~fout.raised
        /\ fout.rule_name = AuthorizationRule
        /\ fout.allowed_types = {} <=>
               \A t \in DOMAIN Get(fin.config.rules[AuthorizationRule], "allow", EmptyDict) :
                   ~fin.config.rules[AuthorizationRule].allow[t]

---------------------------------------------------------------------------
(* ENV reconciliation (app/utils/engines/docker.py)                        *)

\* an environment is a sequence of <<key, value>> entries with distinct keys;
\* envFiltering is the record of its settings, pattern lists already parsed

\* the first container-specific rule whose name is part of the container
\* name; <<>> when there is none
get_container_specific_env_rules(envFiltering, container_name) ==
    LET hits == {k \in 1..Len(envFiltering.containerSpecificRules) :
                    \E t \in 1..Len(container_name) :
                        container_name[t] = envFiltering.containerSpecificRules[k][1]}
    IN  IF hits = {} THEN <<>>
        ELSE << envFiltering.containerSpecificRules[CHOOSE k \in hits : \A j \in hits : k <= j][2] >>

\* the global patterns followed by the container-specific ones
get_env_filter_rules(envFiltering, container_name) ==
    IF ~envFiltering.enabled
    THEN [exclude_patterns |-> <<>>, preserve_patterns |-> <<>>]
    ELSE LET container_rules == get_container_specific_env_rules(envFiltering, container_name)
         IN  IF container_rules = <<>>
             THEN [exclude_patterns |-> envFiltering.excludePatterns,
                   preserve_patterns |-> envFiltering.preservePatterns]
             ELSE [exclude_patterns |-> envFiltering.excludePatterns
                                           \o container_rules[1].excludePatterns,
                   preserve_patterns |-> envFiltering.preservePatterns
                                           \o container_rules[1].preservePatterns]

MatchesAny(key, patterns) == \E k \in 1..Len(patterns) : fnmatch(key, patterns[k])

\* the exclude patterns are walked first and return False on a match, the
\* preserve patterns after them; a key no pattern matches is preserved
should_preserve_env_variable(envFiltering, key, container_name) ==
    LET env_filter_rules == get_env_filter_rules(envFiltering, container_name)
    IN  IF MatchesAny(key, env_filter_rules.exclude_patterns) THEN FALSE
        ELSE IF MatchesAny(key, env_filter_rules.preserve_patterns) THEN TRUE
        ELSE TRUE

\* the entry is in the image with the same value
Inherited(entry, image_env) ==
    \E k \in 1..Len(image_env) : image_env[k] = entry

\* the Env of the new container's spec
filter_environment_variables(envFiltering, container_env, image_env, container_name) ==
    IF container_env = <<>> THEN <<>>
    ELSE IF image_env = <<>> THEN container_env
    ELSE SelectSeq(container_env, LAMBDA entry :
             /\ ~Inherited(entry, image_env)
             /\ should_preserve_env_variable(envFiltering, entry[1], container_name))

---------------------------------------------------------------------------
(* SpecEnv: filter_environment_variables on bounded pattern lists          *)

\* bound of the pattern lists
MaxPatterns == 2

EnvPatterns == {"*", "TOKEN", "PATH"}

RECURSIVE PatternLists(_)
PatternLists(n) ==
    IF n = 0 THEN {<<>>}
    ELSE LET shorter == PatternLists(n - 1)
         IN  shorter \cup {Append(l, g) : l \in shorter, g \in EnvPatterns}

ContainerRuleOptions ==
    { <<>>,
      << <<"web", [excludePatterns |-> <<"TOKEN">>, preservePatterns |-> <<>>]>> >>,
      << <<"db", [excludePatterns |-> <<"*">>, preservePatterns |-> <<>>]>>,
         <<"web", [excludePatterns |-> <<>>, preservePatterns |-> <<"TOKEN">>]>> >> }

EnvFilterings ==
    { [enabled |-> en, excludePatterns |-> ex, preservePatterns |-> pr,
       containerSpecificRules |-> cs] :
      en \in BOOLEAN, ex \in PatternLists(MaxPatterns),
      pr \in PatternLists(MaxPatterns), cs \in ContainerRuleOptions }

ContainerEnv == << <<"PATH", "/bin">>, <<"TOKEN", "x">>, <<"MODE", "prod">> >>

ImageEnvs ==
    { <<>>, << <<"PATH", "/bin">> >>, << <<"PATH", "/bin">>, <<"MODE", "dev">> >> }

InitEnv ==
    /\ fpc = "call"
    /\ \E ef \in EnvFilterings, image_env \in ImageEnvs :
           fin = [envFiltering |-> ef, container_env |-> ContainerEnv,
                  image_env |-> image_env, container_name |-> <<"web">>]
    /\ fout = [none |-> TRUE]
    /\ OrcIdle

\* get_container_spec filters the Env of the container it recreates
EnvCall ==
    /\ fpc = "call"
    /\ fpc' = "return"
    /\ fout' = [env |-> filter_environment_variables(fin.envFiltering, fin.container_env,
                                                      fin.image_env, fin.container_name)]
    /\ UNCHANGED <<fin, orcVars>>

SpecEnv == InitEnv /\ [][EnvCall]_vars

---------------------------------------------------------------------------
(* Properties of the ENV reconciliation (SpecEnv)                          *)

\* C18: a variable the container set itself whose name matches both an
\* exclude pattern and a preserve pattern of the rules in force is kept in
\* the Env of the recreated container: preserve patterns win over exclude
\* patterns.
C18_PreserveWins ==
    fpc = "return" =>
        LET rules == get_env_filter_rules(fin.envFiltering, fin.container_name)
        IN  \A k \in 1..Len(fin.container_env) :
                (/\ ~Inherited(fin.container_env[k], fin.image_env)
                 /\ MatchesAny(fin.container_env[k][1], rules.exclude_patterns)
                 /\ MatchesAny(fin.container_env[k][1], rules.preserve_patterns))
                    => \E j \in 1..Len(fout.env) : fout.env[j] = fin.container_env[k]

\* the rules in force drop the key: an exclude pattern matches it and no
\* preserve pattern does
Dropped(key) ==
    LET rules == get_env_filter_rules(fin.envFiltering, fin.container_name)
    IN  /\ MatchesAny(key, rules.exclude_patterns)
        /\ ~MatchesAny(key, rules.preserve_patterns)

\* the rules in force keep the key: no exclude pattern matches it
Kept(key) ==
    ~MatchesAny(key, get_env_filter_rules(fin.envFiltering, fin.container_name).exclude_patterns)

\* C34: the Env of the recreated container holds only variables of the
\* container that the image does not have with the same value, in their
\* order, among them every one the filter rules keep and none the filter
\* rules drop; the filter rules are applied whenever the image's inspect data
\* is there, as it is for every call of filter_environment_variables.
C34_EnvIsOwnAndFiltered ==
    fpc = "return" =>
        /\ \A j \in 1..Len(fout.env) :
               /\ \E k \in 1..Len(fin.container_env) : fin.container_env[k] = fout.env[j]
               /\ fin.image_env # <<>> => ~Inherited(fout.env[j], fin.image_env)
               /\ ~Dropped(fout.env[j][1])
        /\ \A k \in 1..Len(fin.container_env) :
               (~Inherited(fin.container_env[k], fin.image_env) /\ Kept(fin.container_env[k][1]))
                   => \E j \in 1..Len(fout.env) : fout.env[j] = fin.container_env[k]
        /\ \A i, j \in 1..Len(fout.env) : i < j =>
               \E a, b \in 1..Len(fin.container_env) :
                   a < b /\ fin.container_env[a] = fout.env[i] /\ fin.container_env[b] = fout.env[j]

---------------------------------------------------------------------------
(* SpecTags: the tag pipeline applied to bounded raw tag lists             *)

PipelineTags ==
    { Ver3(1, 0, 0), Ver3(1, 1, 0), Ver3(1, 2, 0), Ver3(2, 0, 0),
      Ver3(1, 1, 0) \o <<"-", "a">>, latest_tag }

RECURSIVE TagLists(_)
TagLists(n) ==
    IF n = 0 THEN {<<>>}
    ELSE LET shorter == TagLists(n - 1)
         IN  shorter \cup {Append(l, t) : l \in shorter, t \in PipelineTags}

\* the registry's answer: every tag with its position in the answer
RawTags(names) == [k \in 1..Len(names) |-> [name |-> names[k], id |-> k]]

InitTags ==
    /\ fpc = "call"
    /\ \E names \in TagLists(MaxRawTags), t \in PipelineTags :
           fin = [tags |-> RawTags(names), imageTag |-> t]
    /\ fout = [none |-> TRUE]
    /\ OrcIdle

TagsCall ==
    /\ fpc = "call"
    /\ fpc' = "return"
    /\ fout' = [filtered |-> filter_image_tags(fin.tags, fin.imageTag),
                sorted |-> sort_tags(filter_image_tags(fin.tags, fin.imageTag)),
                tags |-> get_image_tags(fin.tags, fin.imageTag)]
    /\ UNCHANGED <<fin, orcVars>>

SpecTags == InitTags /\ [][TagsCall]_vars

\* sort_tags applied to the registry's answer as it is
SortCall ==
    /\ fpc = "call"
    /\ fpc' = "return"
    /\ fout' = [sorted |-> sort_tags(fin.tags)]
    /\ UNCHANGED <<fin, orcVars>>

SpecSort == InitTags /\ [][SortCall]_vars

---------------------------------------------------------------------------
(* Properties of the tag pipeline (SpecTags)                               *)

OfferedNames == {fout.tags[k].name : k \in 1..Len(fout.tags)}

\* C6: the list produced by filter -> sort -> truncate holds no candidate
\* strictly older than the current tag t* (lower normalized version) and,
\* when t* occurs in it, ends with the candidate named t*; this also when t*
\* is missing from the fetched tags.
C6_NoOlderCandidate ==
    fpc = "return" =>
        /\ \A k \in 1..Len(fout.tags) :
               ~TupleLess(normalize_version(fout.tags[k].name),
                          normalize_version(fin.imageTag))
        /\ fin.imageTag \in OfferedNames
               => fout.tags[Len(fout.tags)].name = fin.imageTag

\* the normalized version tuple of the k-th tag of a list
TupleOf(tags, k) == normalize_version(tags[k].name)

\* C31: sort_tags returns a permutation of its input, ordered by normalized
\* version tuple descending, with every tag whose tuple is invalid after all
\* tags with a valid tuple, and with tags of equal key in their input order.
C31_SortedValidFirstStable ==
    fpc = "return" =>
        /\ Len(fout.sorted) = Len(fin.tags)
        /\ {fout.sorted[k] : k \in 1..Len(fout.sorted)} = {fin.tags[k] : k \in 1..Len(fin.tags)}
        /\ \A i \in 1..Len(fout.sorted) : \A j \in (i + 1)..Len(fout.sorted) :
               /\ TupleOf(fout.sorted, i) = INVALID => TupleOf(fout.sorted, j) = INVALID
               /\ (TupleOf(fout.sorted, i) # INVALID /\ TupleOf(fout.sorted, j) # INVALID)
                      => ~TupleLess(TupleOf(fout.sorted, i), TupleOf(fout.sorted, j))
               /\ (/\ TupleOf(fout.sorted, i) = TupleOf(fout.sorted, j)
                   /\ TupleOf(fout.sorted, i) = INVALID
                          => lower(fout.sorted[i].name) = lower(fout.sorted[j].name))
                      => fout.sorted[i].id < fout.sorted[j].id

---------------------------------------------------------------------------
(* The Docker engine as the cycle sees it (app/utils/engines/docker.py)    *)

\* bound of the cycle: the engine calls and hooks that fail in it
MaxFaults == 1

ContainerName == <<"web">>
\* f"{container_name}_self_update_helper"
HelperName(container_name) == container_name \o <<"_self_update_helper">>

\* an image reference "nginx:<tag>" as its tokens
ImageRef(tag) == <<"nginx", ":", tag>>

\* a local image: the reference it was pulled as and the hash of its digest
Image(ref, hash) == [ref |-> ref, hash |-> hash]

\* image_inspect_data["RepoDigests"]
RepoDigests(image) == << <<"nginx@sha256", image.hash>> >>

\* a datetime: the day as datetime.toordinal() counts it and the second of
\* that day
DateTime(ordinal, second) == [ordinal |-> ordinal, second |-> second]

\* (a - b).total_seconds()
total_seconds(a, b) == (a.ordinal - b.ordinal) * 86400 + (a.second - b.second)

\* the clock of a cycle: datetime.now() reads 2024-01-03 00:00:00 plus the
\* seconds the cycle has run
Now(n) == DateTime(Ordinal(2024, 1, 3), n)

\* the date of an ordinal, within the years the model's clock visits
DateOf(ordinal) ==
    CHOOSE ymd \in (2023..2024) \X (1..12) \X (1..31) :
        /\ ymd[3] <= DaysInMonth(ymd[1], ymd[2])
        /\ Ordinal(ymd[1], ymd[2], ymd[3]) = ordinal

\* datetime.strftime("%Y%m%d-%H%M%S")
strftime(t) ==
    LET ymd == DateOf(t.ordinal)
    IN  IntToStr(ymd[1]) \o Pad2(ymd[2]) \o Pad2(ymd[3]) \o <<"-">>
        \o Pad2(t.second \div 3600) \o Pad2((t.second % 3600) \div 60)
        \o Pad2(t.second % 60)

\* the two-character alternatives of a strptime directive's pattern:
\* %m 1[0-2]|0[1-9], %d 3[01]|[12]\d|0[1-9]| [1-9], %H 2[0-3]|[0-1]\d,
\* %M [0-5]\d, %S 6[0-1]|[0-5]\d
TwoChars(f, a, b) ==
    CASE f = "m" -> \/ a = "1" /\ b \in {"0", "1", "2"}
                    \/ a = "0" /\ IsDigit(b) /\ b # "0"
      [] f = "d" -> \/ a = "3" /\ b \in {"0", "1"}
                    \/ a \in {"1", "2"} /\ IsDigit(b)
                    \/ a \in {"0", " "} /\ IsDigit(b) /\ b # "0"
      [] f = "H" -> \/ a = "2" /\ b \in {"0", "1", "2", "3"}
                    \/ a \in {"0", "1"} /\ IsDigit(b)
      [] f = "M" -> a \in {"0", "1", "2", "3", "4", "5"} /\ IsDigit(b)
      [] f = "S" -> \/ a = "6" /\ b \in {"0", "1"}
                    \/ a \in {"0", "1", "2", "3", "4", "5"} /\ IsDigit(b)

\* the one-character alternative: %m and %d [1-9], %H, %M and %S \d
OneChar(f, a) == IsDigit(a) /\ (f \in {"m", "d"} => a # "0")

\* re.match of the format's pattern from position pos on: the numbers of the
\* directives and then the position after the match, <<>> for no match; a
\* directive tries two characters first and backtracks to one
RECURSIVE MatchFormat(_, _, _)
MatchFormat(s, pos, format) ==
    IF format = <<>> THEN <<pos>>
    ELSE LET f == Head(format)
             year == IF pos + 3 <= Len(s) /\ isdigit(SubSeq(s, pos, pos + 3))
                     THEN MatchFormat(s, pos + 4, Tail(format)) ELSE <<>>
             two == IF pos + 1 <= Len(s) /\ TwoChars(f, s[pos], s[pos + 1])
                    THEN MatchFormat(s, pos + 2, Tail(format)) ELSE <<>>
             one == IF pos <= Len(s) /\ OneChar(f, s[pos])
                    THEN MatchFormat(s, pos + 1, Tail(format)) ELSE <<>>
         IN  IF f = "-"
             THEN (IF pos <= Len(s) /\ s[pos] = "-"
                   THEN MatchFormat(s, pos + 1, Tail(format)) ELSE <<>>)
             ELSE IF f = "Y"
             THEN (IF year = <<>> THEN <<>>
                   ELSE <<ToInt(SubSeq(s, pos, pos + 3))>> \o year)
             ELSE IF two # <<>>
             THEN <<ToInt(StripLeft(SubSeq(s, pos, pos + 1), {" "}))>> \o two
             ELSE IF one # <<>> THEN <<DigitVal(s[pos])>> \o one
             ELSE <<>>

\* what strptime raises ValueError for
ValueError == DateTime(-1, -1)

\* datetime.strptime(date_string, "%Y%m%d-%H%M%S"): the pattern matches a
\* prefix, no unconverted data remains, and datetime() takes the numbers
strptime(date_string) ==
    LET found == MatchFormat(date_string, 1, <<"Y", "m", "d", "-", "H", "M", "S">>)
    IN  IF found = <<>> THEN ValueError
        ELSE IF found[7] # Len(date_string) + 1 THEN ValueError
        ELSE IF \/ found[1] < 1
                \/ found[3] > DaysInMonth(found[1], found[2])
                \/ found[6] > 59
        THEN ValueError
        ELSE DateTime(Ordinal(found[1], found[2], found[3]),
                      found[4] * 3600 + found[5] * 60 + found[6])

\* f"{original_name}_bak_cu_{timestamp}" with the timestamp of now
get_container_backup_name(original_name, now) ==
    original_name \o <<"_bak_cu_">> \o strftime(now)

\* "_bak_cu_" in container_name
IsBackupName(name) == \E k \in 1..Len(name) : name[k] = "_bak_cu_"

\* container_name.split("_bak_cu_")[-1]
date_str(name) ==
    LET last == CHOOSE k \in 1..Len(name) :
                    /\ name[k] = "_bak_cu_"
                    /\ \A j \in (k + 1)..Len(name) : name[j] # "_bak_cu_"
    IN  SubSeq(name, last + 1, Len(name))

\* age_hours >= min_age_hours, False when strptime or parse_duration raises
BackupAged(name, now, minBackupAge) ==
    /\ strptime(date_str(name)) # ValueError
    /\ parse_duration_s(minBackupAge) # -1
    /\ total_seconds(now, strptime(date_str(name))) >= parse_duration_s(minBackupAge)

NameInUse(containers, name) ==
    \E id \in DOMAIN containers : containers[id].name = name

NewId(containers) ==
    IF DOMAIN containers = {} THEN 1
    ELSE 1 + CHOOSE id \in DOMAIN containers : \A j \in DOMAIN containers : j <= id

\* the attributes an SDK container object caches at get() and reload()
Attrs(id) ==
    [id |-> id, name |-> engine.containers[id].name,
     status |-> engine.containers[id].status,
     policy |-> engine.containers[id].policy]

\* client.containers.list(**list_kwargs) narrowed to the name filter
get_containers(filter_status) ==
    {id \in DOMAIN engine.containers :
        /\ engine.containers[id].name \in cfg.names
        /\ filter_status = "all" \/ engine.containers[id].status = "running"}

\* images.prune(filters={"dangling": False}): images no container uses go
PruneImages(e) ==
    [e EXCEPT !.images =
        {img \in e.images : \E id \in DOMAIN e.containers : e.containers[id].image = img}]

Restrict(f, keep) == [x \in keep |-> f[x]]

\* config.prune, with the defaults "48h" and 1 of config.py
Prune(removeOldContainers, minBackupAge, minBackupsToKeep) ==
    [removeOldContainers |-> removeOldContainers, minBackupAge |-> minBackupAge,
     minBackupsToKeep |-> minBackupsToKeep]

\* the removal is not held back in dry-run
cleanup_backup_containers_unguarded(containers, dry_run, prune, now) ==
    {id \in DOMAIN containers :
        /\ prune.removeOldContainers
        /\ containers[id].status = "exited"
        /\ IsBackupName(containers[id].name)
        /\ BackupAged(containers[id].name, now, prune.minBackupAge)}

\* the backup containers cleanup_backup_containers removes;
\* prune.minBackupsToKeep is not read
cleanup_backup_containers(containers, dry_run, prune, now) ==
    {id \in DOMAIN containers :
        /\ prune.removeOldContainers
        /\ ~dry_run
        /\ containers[id].status = "exited"
        /\ IsBackupName(containers[id].name)
        /\ BackupAged(containers[id].name, now, prune.minBackupAge)}

\* the loop never breaks
progressive_break_never(rule, i, n) == FALSE

\* break after this candidate: progressiveUpgrade is off and it is not the last
progressive_break(rule, i, n) ==
    ~Get(rule, "progressiveUpgrade", TRUE) /\ i < n - 1

---------------------------------------------------------------------------
(* SpecPrune: cleanup_backup_containers on bounded container lists         *)

\* bound: the containers the engine lists
MaxBackups == 2

\* a string as its characters, for the timestamps below
Chars(digits) == [k \in 1..Len(digits) |-> DigitSeq[digits[k] + 1]]

\* timestamps of backup names: 48, 24 and 60 hours before the clock reading
\* of the call
Stamp48 == Chars(<<2, 0, 2, 4, 0, 1, 0, 1>>) \o <<"-">> \o Chars(<<0, 0, 0, 0, 0, 0>>)
Stamp24 == Chars(<<2, 0, 2, 4, 0, 1, 0, 2>>) \o <<"-">> \o Chars(<<0, 0, 0, 0, 0, 0>>)
Stamp60 == Chars(<<2, 0, 2, 3, 1, 2, 3, 1>>) \o <<"-">> \o Chars(<<1, 2, 0, 0, 0, 0>>)

\* the names of the containers the engine may hold: backups of "web" and of
\* "my_app", a name whose suffix has a one-digit day, one with an impossible
\* date, and a container that is no backup
PruneNames ==
    << <<"web", "_bak_cu_">> \o Stamp48,
       <<"web", "_bak_cu_">> \o Stamp24,
       <<"web", "_bak_cu_">> \o Stamp60,
       <<"my", "_", "app", "_bak_cu_">> \o Stamp48,
       <<"web", "_bak_cu_">> \o Chars(<<2, 0, 2, 4, 0, 1, 1>>) \o <<"-">> \o Chars(<<0, 0, 0, 0, 0, 0>>),
       <<"web", "_bak_cu_">> \o Chars(<<2, 0, 2, 4, 0, 2, 3, 0>>) \o <<"-">> \o Chars(<<0, 0, 0, 0, 0, 0>>),
       <<"web">> >>

\* client.containers.list(all=True): up to MaxBackups containers of distinct
\* names, each exited or running
PruneContainers ==
    UNION { [ids -> {"exited", "running"}] :
            ids \in {x \in SUBSET (1..Len(PruneNames)) : Cardinality(x) <= MaxBackups} }

PruneConfigs ==
    { Prune(ro, age, keep) :
      ro \in BOOLEAN, age \in {<<"4", "8", "h">>, <<"1", "d">>, <<"2", "x">>},
      keep \in 0..2 }

InitPrune ==
    /\ fpc = "call"
    /\ \E status \in PruneContainers, prune \in PruneConfigs, dry_run \in BOOLEAN :
           fin = [containers |-> [id \in DOMAIN status |->
                                     [name |-> PruneNames[id], status |-> status[id]]],
                  prune |-> prune, dry_run |-> dry_run, now |-> Now(0)]
    /\ fout = [none |-> TRUE]
    /\ OrcIdle

\* perform_cleanup calls cleanup_backup_containers; the engine holds what
\* was not removed
PruneCall ==
    /\ fpc = "call"
    /\ fpc' = "return"
    /\ LET removed == cleanup_backup_containers(fin.containers, fin.dry_run, fin.prune, fin.now)
       IN  fout' = [removed |-> removed,
                    containers |-> Restrict(fin.containers, DOMAIN fin.containers \ removed)]
    /\ UNCHANGED <<fin, orcVars>>

SpecPrune == InitPrune /\ [][PruneCall]_vars

---------------------------------------------------------------------------
(* Properties of the backup cleanup (SpecPrune)                            *)

\* the name ends with "_bak_cu_" and a timestamp written as YYYYMMDD-HHMMSS
EndsWithStamp(name) ==
    /\ Len(name) >= 17
    /\ name[Len(name) - 15] = "_bak_cu_"
    /\ isdigit(SubSeq(name, Len(name) - 14, Len(name) - 7))
    /\ name[Len(name) - 6] = "-"
    /\ isdigit(SubSeq(name, Len(name) - 5, Len(name)))

\* the name without "_bak_cu_" and the timestamp
OriginalName(name) == SubSeq(name, 1, Len(name) - 16)

\* the age in seconds the timestamp of a backup name gives
AgeOf(name, now) == total_seconds(now, strptime(SubSeq(name, Len(name) - 14, Len(name))))

\* C13: cleanup_backup_containers removes a container only if it is exited,
\* its name ends with _bak_cu_<YYYYMMDD-HHMMSS>, and the age derived from
\* that timestamp is at least minBackupAge; every other container is left
\* untouched.
C13_RemovesOnlyAgedBackups ==
    fpc = "return" =>
        /\ \A id \in fout.removed :
              /\ fin.containers[id].status = "exited"
              /\ EndsWithStamp(fin.containers[id].name)
              /\ parse_duration_s(fin.prune.minBackupAge) # -1
              /\ AgeOf(fin.containers[id].name, fin.now) >= parse_duration_s(fin.prune.minBackupAge)
        /\ \A id \in DOMAIN fin.containers \ fout.removed :
              id \in DOMAIN fout.containers /\ fout.containers[id] = fin.containers[id]

\* the name of a backup: its timestamp is a date and a time of day
BackupStamped(name) ==
    EndsWithStamp(name) /\ strptime(SubSeq(name, Len(name) - 14, Len(name))) # ValueError

\* the backups of one original name
BackupsOf(containers, original) ==
    {id \in DOMAIN containers :
        /\ BackupStamped(containers[id].name)
        /\ OriginalName(containers[id].name) = original}

\* how many backups of the same original name are newer than this one
NewerBackups(containers, id) ==
    Cardinality({j \in BackupsOf(containers, OriginalName(containers[id].name)) :
                    AgeOf(containers[j].name, Now(0)) < AgeOf(containers[id].name, Now(0))})

\* C14: of the backups of one original name, the minBackupsToKeep newest
\* are still there after the prune, whatever their age.
C14_KeepsNewestBackups ==
    fpc = "return" =>
        \A id \in DOMAIN fin.containers :
            (/\ BackupStamped(fin.containers[id].name)
             /\ NewerBackups(fin.containers, id) < fin.prune.minBackupsToKeep)
                => id \in DOMAIN fout.containers

---------------------------------------------------------------------------
(* SpecVerify: verify_container_start on bounded timings and containers    *)
(* (app/utils/engines/docker.py)                                           *)

\* bounds of the timings, in seconds, and of what the engine reports
MaxWait == 4
MaxStableTime == 2
MaxCheckInterval == 2
MaxLatency == 1
MaxRestarts == 1

\* config.updateVerification after parse_duration(..., "s")
VerifyConfigs ==
    { [max_wait |-> mw, stable_time |-> st, check_interval |-> ci, grace_period |-> gp] :
      mw \in {0, 2, MaxWait}, st \in 0..MaxStableTime, ci \in 0..MaxCheckInterval,
      gp \in {0, 3} }

\* container.attrs["State"]; Health "none" is a State without the Health key
ContainerState(status, restarts, started, health) ==
    [Status |-> status, RestartCount |-> restarts, StartedAt |-> started, Health |-> health]

\* what container.reload() may find after the state c: the restart count
\* does not fall, StartedAt moves on a start, a healthcheck stays one
Reloads(c) ==
    { ContainerState(status, restarts, started, health) :
      status \in {"running", "starting", "exited"},
      restarts \in {r \in {c.RestartCount, c.RestartCount + 1} : r <= MaxRestarts},
      started \in {t \in {c.StartedAt, c.StartedAt + 1} : t <= 1},
      health \in IF c.Health = "none" THEN {"none"}
                 ELSE {"starting", "healthy", "unhealthy"} }

InitVerify ==
    /\ fpc = "call"
    /\ \E config \in VerifyConfigs, dry_run \in BOOLEAN, health \in {"none", "starting"} :
           fin = [config |-> config, dry_run |-> dry_run,
                  state |-> ContainerState("running", 0, 0, health)]
    /\ fout = [none |-> TRUE]
    /\ OrcIdle

\* datetime.now().timestamp() < deadline fails
Expired_late(now, deadline) == now > deadline

Expired(now, deadline) == now >= deadline

\* the window is taken as long enough at once
Stable_at_once(now, stable_start, stable_time) == TRUE

\* (datetime.now() - stable_start).total_seconds() >= stable_time
Stable(now, stable_start, stable_time) == now - stable_start >= stable_time

\* the function up to its loop: the deadline is counted from the entry, the
\* grace period is slept unless dry-run
VerifyBegin ==
    /\ fpc = "call"
    /\ fpc' = "loop"
    /\ fout' = [now |-> IF fin.dry_run THEN 0 ELSE fin.config.grace_period,
                deadline |-> fin.config.max_wait,
                last_state |-> None, stable_start |-> None,
                state |-> fin.state, samples |-> <<>>, result |-> ""]
    /\ UNCHANGED <<fin, orcVars>>

Return(out, result) == fpc' = "return" /\ fout' = [out EXCEPT !.result = result]

\* time.sleep(check_interval); the pass through the loop took d more
Sleep(out, d) ==
    fpc' = "loop" /\ fout' = [out EXCEPT !.now = @ + fin.config.check_interval + d]

\* one pass through the while loop: the deadline test, the reload, the
\* checks on the reloaded state, and the sleep
VerifySample ==
    /\ fpc = "loop"
    /\ IF Expired(fout.now, fout.deadline)
       THEN Return(fout, "timeout")
       ELSE \E state \in Reloads(fout.state), d \in 0..MaxLatency :
            LET first == fout.last_state = None
                last == IF first
                        THEN [startedAt |-> state.StartedAt, restarts |-> state.RestartCount]
                        ELSE fout.last_state
                stable_start == IF first THEN <<fout.now>> ELSE fout.stable_start
                out == [fout EXCEPT !.state = state,
                                    !.samples = Append(@, [t |-> fout.now, state |-> state]),
                                    !.last_state = last,
                                    !.stable_start = stable_start]
            IN  /\ fin.config.check_interval + d >= 1
                /\ IF ~first /\ state.RestartCount > last.restarts
                   THEN Return(out, "restarted")
                   ELSE IF ~first /\ state.StartedAt # last.startedAt
                   THEN Return(out, "manually restarted")
                   ELSE IF state.Status \notin {"running", "starting"}
                   THEN Return(out, "not running")
                   ELSE IF state.Health # "none"
                   THEN IF state.Health = "healthy"
                        THEN IF stable_start = None
                             THEN Sleep([out EXCEPT !.stable_start = <<fout.now>>], d)
                             ELSE IF Stable(fout.now, stable_start[1], fin.config.stable_time)
                             THEN Return(out, "success")
                             ELSE Sleep(out, d)
                        ELSE IF state.Health = "unhealthy"
                             THEN Return([out EXCEPT !.stable_start = None], "unhealthy")
                             ELSE Sleep([out EXCEPT !.stable_start = None], d)
                   ELSE IF Stable(fout.now, stable_start[1], fin.config.stable_time)
                        THEN Return(out, "success")
                        ELSE Sleep(out, d)
    /\ UNCHANGED <<fin, orcVars>>

NextVerify == VerifyBegin \/ VerifySample

SpecVerify == InitVerify /\ [][NextVerify]_vars

\* the process is scheduled and its clock moves on
SpecVerifyFair == SpecVerify /\ WF_vars(NextVerify)

---------------------------------------------------------------------------
(* The cycle: its configuration and initial state                          *)

AllowAll == [c \in {"major", "minor", "patch", "build", "digest"} |-> TRUE]

\* the rule every container falls back to
OrcRules ==
    { [allow |-> AllowAll, progressiveUpgrade |-> TRUE],
      [allow |-> AllowAll, progressiveUpgrade |-> FALSE],
      [allow |-> EmptyDict, progressiveUpgrade |-> TRUE] }

OrcConfig(rule) ==
    [rules |-> ("default" :> rule), assignmentsByName |-> EmptyDict,
     assignmentsByImage |-> <<>>, assignmentsById |-> <<>>]

\* the names the registry answers with, newest first; the last one is the
\* tag the container runs
RegistryTags == <<Ver3(1, 0, 2), Ver3(1, 0, 1), Ver3(1, 0, 0)>>

\* the registry's answers: the newest tag may have been pushed 10 minutes
\* ago, and the running tag may have been pushed again since it was pulled
Registries ==
    { [k \in 1..Len(RegistryTags) |->
          [name |-> RegistryTags[k], id |-> k,
           digest |-> IF k = Len(RegistryTags) /\ repushed
                      THEN <<"sha256", <<"r", k>>>>
                      ELSE <<"sha256", <<"h", k>>>>,
           last_updated |-> IF k = 1 /\ fresh THEN <<600>> ELSE <<7200>>]] :
      fresh \in BOOLEAN, repushed \in BOOLEAN }

Configurations ==
    { [dry_run |-> dr, filter_status |-> fs, names |-> {ContainerName},
       config |-> OrcConfig(rule),
       self |-> sf, continueOnFailure |-> cf, rollbackOnFailure |-> rb,
       credentials |-> cr] :
      dr \in BOOLEAN, fs \in {"", "all"}, rule \in OrcRules, sf \in {0, 1},
      cf \in BOOLEAN, rb \in BOOLEAN, cr \in BOOLEAN }

\* the container under update, and a backup an earlier cycle left behind
InitialContainers(status, policy) ==
    (1 :> [name |-> ContainerName, image |-> Image(ImageRef(RegistryTags[Len(RegistryTags)]), <<"h", Len(RegistryTags)>>),
           policy |-> policy, status |-> status])
    @@
    (2 :> [name |-> get_container_backup_name(ContainerName, DateTime(Ordinal(2024, 1, 1), 0)),
           image |-> Image(ImageRef(Ver3(0, 9, 0)), <<"h", -1>>),
           policy |-> "no", status |-> "exited"])

NoContainer == [id |-> 0, name |-> <<>>, status |-> "", policy |-> ""]

main_locals ==
    [containers |-> <<>>, k |-> 0,
     container |-> NoContainer, container_inspect_data |-> NoContainer,
     reference |-> <<>>, tag |-> <<>>, virtual_tag |-> <<>>, local_digests |-> <<>>,
     remote_image_tags |-> <<>>, i |-> 0, update_type |-> "",
     new_image_reference |-> <<>>, effective_rule |-> "",
     self_update_info |-> <<>>]

recreate_locals ==
    [original_name |-> <<>>, backup_name |-> <<>>, response |-> 0,
     new_container |-> 0, original_restart_policy |-> "", result |-> "",
     now |-> 0, before |-> NoContainer, failed_in |-> "", rollback |-> "",
     rollback_errors |-> FALSE]

\* NotificationManager.update_stats after __init__ and after reset_stats:
\* the counters, the status of every update detail, the number of errors
update_stats ==
    [containers_processed |-> 0, containers_updated |-> 0, containers_failed |-> 0,
     containers_skipped |-> 0, update_details |-> <<>>, errors |-> 0]

\* only the status "succeeded" increments containers_updated
add_update_detail(stats, status) ==
    [stats EXCEPT !.update_details = Append(@, status),
                  !.containers_updated = IF status = "succeeded" THEN @ + 1 ELSE @]

add_error(stats) ==
    [stats EXCEPT !.errors = @ + 1, !.containers_failed = @ + 1]

increment_processed(stats) == [stats EXCEPT !.containers_processed = @ + 1]

increment_skipped(stats) == [stats EXCEPT !.containers_skipped = @ + 1]

Init ==
    /\ fpc = "idle" /\ fin = <<>> /\ fout = <<>>
    /\ cfg \in {c \in Configurations : c.self # 0 => c.filter_status = ""}
    /\ registry \in Registries
    /\ \E status \in {"running", "exited"}, policy \in {"no", "always"} :
           /\ cfg.self # 0 => status = "running"
           /\ engine = [containers |-> InitialContainers(status, policy),
                        images |-> {Image(ImageRef(RegistryTags[Len(RegistryTags)]), <<"h", Len(RegistryTags)>>),
                                    Image(ImageRef(Ver3(0, 9, 0)), <<"h", -1>>)}]
    /\ calls = {}
    /\ faults = 0
    /\ pc = "start"
    /\ mn = main_locals
    /\ rc = recreate_locals
    /\ hist = <<>>
    /\ nm = update_stats

\* the container the engine's own process runs in
SelfName == <<"captn">>

\* a fleet: "web" and the engine's own container, both running an image of
\* the repository the registry answers for
FleetContainers(policy) ==
    (1 :> [name |-> ContainerName, image |-> Image(ImageRef(RegistryTags[Len(RegistryTags)]), <<"h", Len(RegistryTags)>>),
           policy |-> policy, status |-> "running"])
    @@
    (2 :> [name |-> SelfName, image |-> Image(ImageRef(RegistryTags[Len(RegistryTags)]), <<"h", Len(RegistryTags)>>),
           policy |-> "always", status |-> "running"])

\* the cycle runs over both; the engine's process runs in container 2 or
\* outside of the containers listed
FleetConfigurations ==
    { [dry_run |-> dr, filter_status |-> "", names |-> {ContainerName, SelfName},
       config |-> OrcConfig(rule),
       self |-> sf, continueOnFailure |-> FALSE, rollbackOnFailure |-> TRUE,
       credentials |-> FALSE] :
      dr \in BOOLEAN, rule \in OrcRules, sf \in {0, 2} }

InitFleet ==
    /\ fpc = "idle" /\ fin = <<>> /\ fout = <<>>
    /\ cfg \in FleetConfigurations
    /\ registry \in Registries
    /\ \E policy \in {"no", "always"} :
           engine = [containers |-> FleetContainers(policy),
                     images |-> {Image(ImageRef(RegistryTags[Len(RegistryTags)]), <<"h", Len(RegistryTags)>>)}]
    /\ calls = {}
    /\ faults = 0
    /\ pc = "start"
    /\ mn = main_locals
    /\ rc = recreate_locals
    /\ hist = <<>>
    /\ nm = update_stats

---------------------------------------------------------------------------
(* The cycle: main() up to the recreate (app/__main__.py)                  *)

\* an engine call or a hook fails
Fails == faults < MaxFaults /\ faults' = faults + 1

\* a call raises: always on a name conflict, else when the engine fails
Raises(conflict) == IF conflict THEN UNCHANGED faults ELSE Fails

\* scripts.should_continue_on_pre_failure(): preScripts.continueOnFailure
should_continue_on_pre_failure == cfg.continueOnFailure

\* scripts.should_rollback_on_post_failure(): postScripts.rollbackOnFailure
should_rollback_on_post_failure == cfg.rollbackOnFailure

\* the orders the engine may list a set of containers in
Orders(ids) ==
    {order \in [1..Cardinality(ids) -> ids] :
        \A a, b \in 1..Cardinality(ids) : a # b => order[a] # order[b]}

\* engines.get_containers(args.filter, client); main returns when it is
\* empty, else the statistics are reset and the loop takes the first one
GetContainers ==
    /\ pc = "start"
    /\ IF get_containers(cfg.filter_status) = {}
       THEN pc' = "done" /\ UNCHANGED <<mn, nm>>
       ELSE /\ pc' = "begin"
            /\ \E order \in Orders(get_containers(cfg.filter_status)) :
                   mn' = [mn EXCEPT !.containers = [a \in DOMAIN order |-> Attrs(order[a])],
                                    !.k = 1,
                                    !.container = Attrs(order[1])]
            /\ nm' = update_stats
    /\ UNCHANGED <<fnVars, cfg, registry, engine, calls, faults, rc, hist>>

\* the rule pre-check, the inspection of container and image, the tag fetch
BeginContainer ==
    /\ pc = "begin"
    /\ LET data == engine.containers[mn.container.id]
           tags == get_image_tags(registry, data.image.ref[3])
           precheck == get_container_allowed_update_types(cfg.config, mn.container.name, None)
       IN  IF precheck.raised
           THEN pc' = "crashed" /\ UNCHANGED <<mn, faults, nm>>
           ELSE IF precheck.allowed_types = {}
           THEN /\ pc' = "next"
                /\ nm' = increment_skipped(nm)
                /\ UNCHANGED <<mn, faults>>
           ELSE \/ /\ Fails
                   /\ pc' = "next"
                   /\ nm' = add_error(increment_processed(nm))
                   /\ UNCHANGED mn
                \/ /\ mn' = [mn EXCEPT !.container_inspect_data = data,
                                       !.reference = data.image.ref,
                                       !.tag = data.image.ref[3],
                                       !.virtual_tag = data.image.ref[3],
                                       !.local_digests = RepoDigests(data.image),
                                       !.remote_image_tags = tags,
                                       !.i = 1]
                   /\ pc' = IF tags = <<>> THEN "next" ELSE "candidate"
                   /\ nm' = IF tags = <<>>
                            THEN increment_skipped(increment_processed(nm))
                            ELSE increment_processed(nm)
                   /\ UNCHANGED faults
    /\ UNCHANGED <<fnVars, cfg, registry, engine, calls, rc, hist>>

\* reversed(remote_image_tags)[i], i counted from 1
Candidate == mn.remote_image_tags[Len(mn.remote_image_tags) + 1 - mn.i]

\* the version main compares against: the virtual tag in dry-run
OldVersion == IF cfg.dry_run THEN mn.virtual_tag ELSE mn.tag

Skip == [mn EXCEPT !.i = mn.i + 1]

\* the head of the candidate loop: classify the candidate and ask the policy
NextCandidate ==
    /\ pc = "candidate"
    /\ IF mn.i > Len(mn.remote_image_tags)
       THEN pc' = "next" /\ UNCHANGED <<mn, hist>>
       ELSE LET update_type == get_update_type(OldVersion, Candidate.name,
                                               mn.local_digests, Candidate.digest)
                permit == get_update_permit(cfg.config, mn.container.name, mn.reference,
                                            update_type, image_age(Candidate.last_updated),
                                            OldVersion, Candidate.name,
                                            mn.remote_image_tags[1].name)
            IN  IF update_type \in {"unknown", "none"}
                THEN mn' = Skip /\ pc' = "candidate" /\ UNCHANGED hist
                ELSE IF ~permit.allowed
                THEN /\ mn' = [Skip EXCEPT !.effective_rule = permit.rule_name]
                     /\ pc' = "candidate" /\ UNCHANGED hist
                ELSE /\ mn' = [mn EXCEPT !.update_type = update_type,
                                         !.new_image_reference = permit.new_image_reference,
                                         !.effective_rule = permit.rule_name]
                     /\ hist' = Append(hist, <<"authorized", mn.i, mn.container.id>>)
                     /\ pc' = "pull"
    /\ UNCHANGED <<fnVars, nm, cfg, registry, engine, calls, faults, rc>>

\* engines.pull_image: login and pull unless dry-run; an APIError is caught
\* and the candidate skipped, any other exception of the engine client is
\* not caught, neither in pull_image nor in main
PullImage ==
    /\ pc = "pull"
    /\ IF cfg.dry_run
       THEN pc' = "pre" /\ UNCHANGED <<engine, calls, faults, mn, hist>>
       ELSE /\ calls' = calls \cup (IF cfg.credentials THEN {"login"} ELSE {}) \cup {"pull"}
            /\ \/ /\ engine' = [engine EXCEPT !.images =
                                   @ \cup {Image(mn.new_image_reference, Candidate.digest[2])}]
                  /\ hist' = Append(hist, <<"pulled", mn.i, mn.container.id>>)
                  /\ pc' = "pre"
                  /\ UNCHANGED <<faults, mn>>
               \/ /\ Fails
                  /\ mn' = Skip
                  /\ pc' = "candidate"
                  /\ UNCHANGED <<engine, hist>>
               \/ /\ Fails
                  /\ pc' = "crashed"
                  /\ UNCHANGED <<engine, hist, mn>>
    /\ UNCHANGED <<fnVars, nm, cfg, registry, rc>>

\* execute_pre_script: a failing script skips the candidate unless
\* continueOnFailure is set
PreScript ==
    /\ pc = "pre"
    /\ \/ pc' = "recreate" /\ UNCHANGED <<mn, faults, nm>>
       \/ /\ ~cfg.dry_run
          /\ Fails
          /\ IF should_continue_on_pre_failure
             THEN pc' = "recreate" /\ UNCHANGED <<mn, nm>>
             ELSE /\ pc' = "candidate" /\ mn' = Skip
                  /\ nm' = add_update_detail(add_error(nm), "failed")
    /\ UNCHANGED <<fnVars, cfg, registry, engine, calls, rc, hist>>

\* no container is taken for the engine's own
is_self_container_never(container_name, container_id) == FALSE

\* engines.is_self_container(container.name, container.id): the container
\* is the one the engine's own process runs in
is_self_container(container_name, container_id) == container_id = cfg.self

\* step 3: park a self-update for the end of the cycle, or enter
\* recreate_container
Dispatch ==
    /\ pc = "recreate"
    /\ IF is_self_container(mn.container.name, mn.container.id)
       THEN /\ mn' = [mn EXCEPT !.self_update_info =
                         [container |-> mn.container,
                          new_image_reference |-> mn.new_image_reference,
                          update_type |-> mn.update_type]]
            /\ hist' = Append(hist, <<"parked", mn.i, mn.container.id>>)
            /\ pc' = "next"
            /\ nm' = add_update_detail(nm, "succeeded")
            /\ UNCHANGED rc
       ELSE /\ rc' = [recreate_locals EXCEPT
                         !.original_name = mn.container.name,
                         !.backup_name = get_container_backup_name(mn.container.name, Now(rc.now + 1)),
                         !.now = rc.now + 1,
                         !.original_restart_policy = mn.container.policy,
                         !.before = engine.containers[mn.container.id]]
            /\ hist' = Append(hist, <<"recreate", mn.i, mn.container.id>>)
            /\ pc' = "rc_rename"
            /\ UNCHANGED <<mn, nm>>
    /\ UNCHANGED <<fnVars, cfg, registry, engine, calls, faults>>

---------------------------------------------------------------------------
(* recreate_container: prepare the original, create and start the new one  *)

\* the id of the container object main and recreate_container share
cid == mn.container.id

Reloaded == [mn EXCEPT !.container = Attrs(cid)]

\* the except branches of recreate_container: rollback() unless dry-run,
\* return None
Failed(step) ==
    /\ rc' = [rc EXCEPT !.failed_in = step,
                        !.result = IF cfg.dry_run THEN "none" ELSE @]
    /\ pc' = IF cfg.dry_run THEN "rc_return" ELSE "rb_cleanup"

\* container.rename(backup_name)
RcRename ==
    /\ pc = "rc_rename"
    /\ IF cfg.dry_run
       THEN pc' = "rc_reload1" /\ UNCHANGED <<engine, calls, faults, rc>>
       ELSE /\ calls' = calls \cup {"rename"}
            /\ \/ /\ ~NameInUse(engine.containers, rc.backup_name)
                  /\ engine' = [engine EXCEPT !.containers[cid].name = rc.backup_name]
                  /\ pc' = "rc_reload1"
                  /\ UNCHANGED <<faults, rc>>
               \/ /\ Raises(NameInUse(engine.containers, rc.backup_name))
                  /\ Failed("prepare")
                  /\ UNCHANGED engine
    /\ UNCHANGED <<fnVars, nm, cfg, registry, mn, hist>>

\* container.reload() after the rename
RcReload1 ==
    /\ pc = "rc_reload1"
    /\ IF cfg.dry_run
       THEN /\ pc' = IF rc.original_restart_policy # "no" THEN "rc_update" ELSE "rc_stop"
            /\ UNCHANGED <<mn, faults, rc>>
       ELSE \/ /\ mn' = Reloaded
               /\ pc' = IF rc.original_restart_policy # "no" THEN "rc_update" ELSE "rc_stop"
               /\ UNCHANGED <<faults, rc>>
            \/ /\ Fails
               /\ Failed("prepare")
               /\ UNCHANGED mn
    /\ UNCHANGED <<fnVars, nm, cfg, registry, engine, calls, hist>>

\* container.update(restart_policy={"Name": "no"}); container.reload()
RcUpdate ==
    /\ pc = "rc_update"
    /\ IF cfg.dry_run
       THEN pc' = "rc_stop" /\ UNCHANGED <<engine, calls, faults, mn, rc>>
       ELSE /\ calls' = calls \cup {"update"}
            /\ \/ /\ engine' = [engine EXCEPT !.containers[cid].policy = "no"]
                  /\ mn' = [mn EXCEPT !.container =
                               [Attrs(cid) EXCEPT !.policy = "no"]]
                  /\ pc' = "rc_stop"
                  /\ UNCHANGED <<faults, rc>>
               \/ /\ engine' = [engine EXCEPT !.containers[cid].policy = "no"]
                  /\ Fails
                  /\ Failed("prepare")
                  /\ UNCHANGED mn
               \/ /\ Fails
                  /\ Failed("prepare")
                  /\ UNCHANGED <<engine, mn>>
    /\ UNCHANGED <<fnVars, nm, cfg, registry, hist>>

\* container.stop()
RcStop ==
    /\ pc = "rc_stop"
    /\ IF cfg.dry_run
       THEN pc' = "rc_create" /\ UNCHANGED <<engine, calls, faults, rc>>
       ELSE /\ calls' = calls \cup {"stop"}
            /\ \/ /\ engine' = [engine EXCEPT !.containers[cid].status =
                                   IF @ = "running" THEN "exited" ELSE @]
                  /\ pc' = "rc_create"
                  /\ UNCHANGED <<faults, rc>>
               \/ /\ Fails
                  /\ Failed("prepare")
                  /\ UNCHANGED engine
    /\ UNCHANGED <<fnVars, nm, cfg, registry, mn, hist>>

\* the image a reference resolves to: the one pulled last
PulledImage == Image(mn.new_image_reference, Candidate.digest[2])

\* get_container_spec and client.api.create_container(**spec)
RcCreate ==
    /\ pc = "rc_create"
    /\ IF cfg.dry_run
       THEN /\ rc' = [rc EXCEPT !.new_container = cid]
            /\ pc' = "rc_start"
            /\ UNCHANGED <<engine, calls, faults>>
       ELSE /\ calls' = calls \cup {"create"}
            /\ \/ /\ ~NameInUse(engine.containers, rc.original_name)
                  /\ engine' = [engine EXCEPT !.containers =
                                   @ @@ (NewId(@) :>
                                       [name |-> rc.original_name,
                                        image |-> PulledImage,
                                        policy |-> mn.container_inspect_data.policy,
                                        status |-> "created"])]
                  /\ rc' = [rc EXCEPT !.response = NewId(engine.containers)]
                  /\ pc' = "rc_get"
                  /\ UNCHANGED faults
               \/ /\ Raises(NameInUse(engine.containers, rc.original_name))
                  /\ Failed("create")
                  /\ UNCHANGED engine
    /\ nm' = IF rc'.failed_in = "create" THEN add_error(nm) ELSE nm
    /\ UNCHANGED <<fnVars, cfg, registry, mn, hist>>

\* client.containers.get(response.get("Id"))
RcGet ==
    /\ pc = "rc_get"
    /\ \/ /\ rc' = [rc EXCEPT !.new_container = rc.response]
          /\ pc' = "rc_start"
          /\ UNCHANGED faults
       \/ /\ Fails
          /\ Failed("create")
    /\ nm' = IF rc'.failed_in = "create" THEN add_error(nm) ELSE nm
    /\ UNCHANGED <<fnVars, cfg, registry, engine, calls, mn, hist>>

\* new_container.start()
RcStart ==
    /\ pc = "rc_start"
    /\ IF cfg.dry_run
       THEN pc' = "rc_verify" /\ UNCHANGED <<engine, calls, faults, rc>>
       ELSE /\ calls' = calls \cup {"start"}
            /\ \/ /\ engine' = [engine EXCEPT !.containers[rc.new_container].status = "running"]
                  /\ pc' = "rc_verify"
                  /\ UNCHANGED <<faults, rc>>
               \/ /\ Fails
                  /\ Failed("create")
                  /\ UNCHANGED engine
    /\ nm' = IF rc'.failed_in = "create" THEN add_error(nm) ELSE nm
    /\ UNCHANGED <<fnVars, cfg, registry, mn, hist>>

\* verify_container_start(new_container): the container it watches stays
\* running, or stops or turns unhealthy; in dry-run it watches the original
RcVerify ==
    /\ pc = "rc_verify"
    /\ IF cfg.dry_run
       THEN /\ IF engine.containers[rc.new_container].status = "running"
               THEN pc' = "rc_post" /\ UNCHANGED rc
               ELSE Failed("create")
            /\ UNCHANGED engine
       ELSE \/ pc' = "rc_post" /\ UNCHANGED <<engine, rc>>
            \/ /\ \E status \in {"running", "exited"} :
                      engine' = [engine EXCEPT !.containers[rc.new_container].status = status]
               /\ Failed("create")
    /\ nm' = IF rc'.failed_in = "create" THEN add_error(nm) ELSE nm
    /\ UNCHANGED <<fnVars, cfg, registry, calls, faults, mn, hist>>

\* execute_post_script; a failing script rolls back when
\* postScripts.rollbackOnFailure is set
RcPost ==
    /\ pc = "rc_post"
    /\ \/ /\ rc' = [rc EXCEPT !.result = "ok"]
          /\ pc' = "rc_return"
          /\ UNCHANGED <<faults, nm>>
       \/ /\ ~cfg.dry_run
          /\ Fails
          /\ nm' = add_error(nm)
          /\ IF should_rollback_on_post_failure
             THEN rc' = [rc EXCEPT !.failed_in = "post"] /\ pc' = "rb_cleanup"
             ELSE rc' = [rc EXCEPT !.result = "ok"] /\ pc' = "rc_return"
    /\ UNCHANGED <<fnVars, cfg, registry, engine, calls, mn, hist>>

---------------------------------------------------------------------------
(* recreate_container.rollback                                             *)

RollbackError == [rc EXCEPT !.rollback_errors = TRUE]

\* "Rollback failed": the outer except of rollback()
RollbackFailed ==
    /\ rc' = [rc EXCEPT !.rollback = "failed", !.rollback_errors = TRUE,
                        !.result = "none"]
    /\ pc' = "rc_return"

\* the best-effort removal of the new container: reload, stop, remove
RbCleanup ==
    /\ pc = "rb_cleanup"
    /\ IF rc.new_container = 0
       THEN pc' = "rb_rename" /\ UNCHANGED <<engine, calls, faults, rc>>
       ELSE /\ pc' = "rb_rename"
            /\ \/ /\ calls' = calls \cup {"stop", "remove"}
                  /\ engine' = [engine EXCEPT !.containers =
                                   Restrict(@, DOMAIN @ \ {rc.new_container})]
                  /\ UNCHANGED <<faults, rc>>
               \/ /\ calls' = calls \cup {"stop", "remove"}
                  /\ Fails
                  /\ engine' = [engine EXCEPT !.containers[rc.new_container].status = "exited"]
                  /\ rc' = RollbackError
               \/ /\ calls' = calls \cup {"stop"}
                  /\ Fails
                  /\ rc' = RollbackError
                  /\ UNCHANGED engine
               \/ /\ Fails
                  /\ rc' = RollbackError
                  /\ UNCHANGED <<engine, calls>>
    /\ UNCHANGED <<fnVars, nm, cfg, registry, mn, hist>>

\* if container.name != original_name: rename back and reload
RbRename ==
    /\ pc = "rb_rename"
    /\ IF mn.container.name = rc.original_name
       THEN pc' = "rb_policy" /\ UNCHANGED <<engine, calls, faults, mn, rc>>
       ELSE /\ calls' = calls \cup {"rename"}
            /\ \/ /\ ~NameInUse(engine.containers, rc.original_name)
                  /\ engine' = [engine EXCEPT !.containers[cid].name = rc.original_name]
                  /\ \/ /\ mn' = [mn EXCEPT !.container =
                                     [Attrs(cid) EXCEPT !.name = rc.original_name]]
                        /\ pc' = "rb_policy"
                        /\ UNCHANGED <<faults, rc>>
                     \/ /\ Fails
                        /\ RollbackFailed
                        /\ UNCHANGED mn
               \/ /\ Raises(NameInUse(engine.containers, rc.original_name))
                  /\ RollbackFailed
                  /\ UNCHANGED <<engine, mn>>
    /\ UNCHANGED <<fnVars, nm, cfg, registry, hist>>

\* restore the restart policy read at entry; a failure is logged and passed
RbPolicy ==
    /\ pc = "rb_policy"
    /\ calls' = calls \cup {"update"}
    /\ pc' = "rb_start"
    /\ \/ /\ engine' = [engine EXCEPT !.containers[cid].policy = rc.original_restart_policy]
          /\ mn' = [mn EXCEPT !.container =
                       [Attrs(cid) EXCEPT !.policy = rc.original_restart_policy]]
          /\ UNCHANGED <<faults, rc>>
       \/ /\ engine' = [engine EXCEPT !.containers[cid].policy = rc.original_restart_policy]
          /\ Fails
          /\ rc' = RollbackError
          /\ UNCHANGED mn
       \/ /\ Fails
          /\ rc' = RollbackError
          /\ UNCHANGED <<engine, mn>>
    /\ UNCHANGED <<fnVars, nm, cfg, registry, hist>>

\* reload; start the original unless it is running
RbStart ==
    /\ pc = "rb_start"
    /\ \/ /\ mn' = Reloaded
          /\ IF engine.containers[cid].status # "running"
             THEN /\ calls' = calls \cup {"start"}
                  /\ \/ /\ engine' = [engine EXCEPT !.containers[cid].status = "running"]
                        /\ rc' = [rc EXCEPT !.rollback = "successful", !.result = "none"]
                        /\ pc' = "rc_return"
                        /\ UNCHANGED faults
                     \/ /\ Fails
                        /\ RollbackFailed
                        /\ UNCHANGED engine
             ELSE /\ rc' = [rc EXCEPT !.rollback = "successful", !.result = "none"]
                  /\ pc' = "rc_return"
                  /\ UNCHANGED <<engine, calls, faults>>
       \/ /\ Fails
          /\ RollbackFailed
          /\ UNCHANGED <<engine, calls, mn>>
    /\ UNCHANGED <<fnVars, nm, cfg, registry, hist>>

---------------------------------------------------------------------------
(* The cycle: after the recreate, self-update and cleanup                  *)

\* step 4 and the progressive check at the end of the loop body
AfterCandidate(locals) ==
    IF progressive_break(Get(cfg.config.rules, locals.effective_rule, EmptyDict),
                         locals.i - 1, Len(locals.remote_image_tags))
    THEN mn' = locals /\ pc' = "next"
    ELSE mn' = [locals EXCEPT !.i = locals.i + 1] /\ pc' = "candidate"

\* main takes the result of recreate_container: on success the new container
\* replaces the old one and its image data is read again
RecreateReturned ==
    /\ pc = "rc_return"
    /\ IF rc.result = "ok"
       THEN /\ hist' = Append(hist, <<"success", mn.i, mn.container.id>>)
            /\ LET new == [mn EXCEPT !.container = Attrs(rc.new_container)]
                   data == engine.containers[rc.new_container]
               IN  \/ /\ AfterCandidate(
                             [new EXCEPT !.container_inspect_data = data,
                                         !.reference = data.image.ref,
                                         !.tag = data.image.ref[3],
                                         !.local_digests = RepoDigests(data.image),
                                         !.virtual_tag = IF cfg.dry_run THEN Candidate.name
                                                         ELSE @])
                      /\ nm' = add_update_detail(nm, "succeeded")
                      /\ UNCHANGED faults
                   \/ /\ Fails
                      /\ AfterCandidate(new)
                      /\ nm' = add_update_detail(add_error(nm), "failed")
       ELSE /\ AfterCandidate(mn)
            /\ nm' = add_update_detail(add_error(nm), "failed")
            /\ UNCHANGED <<faults, hist>>
    /\ UNCHANGED <<fnVars, cfg, registry, engine, calls, rc>>

\* for container in containers: the next container of the list, or the end
\* of the loop
NextContainer ==
    /\ pc = "next"
    /\ IF mn.k < Len(mn.containers)
       THEN /\ mn' = [mn EXCEPT !.k = mn.k + 1, !.container = mn.containers[mn.k + 1]]
            /\ pc' = "begin"
       ELSE pc' = "self_update" /\ UNCHANGED mn
    /\ UNCHANGED <<fnVars, nm, cfg, registry, engine, calls, faults, rc, hist>>

\* the image a reference names at the registry
RemoteImage(reference) ==
    Image(reference,
          registry[CHOOSE t \in 1..Len(registry) : registry[t].name = reference[3]].digest[2])

\* the parked self-update: the producer runs the helper container, and the
\* cleanup is left out
SelfUpdate ==
    /\ pc = "self_update"
    /\ IF mn.self_update_info = <<>>
       THEN pc' = "cleanup" /\ UNCHANGED <<engine, calls, faults>>
       ELSE /\ pc' = "done"
            /\ IF cfg.dry_run
               THEN UNCHANGED <<engine, calls, faults>>
               ELSE /\ calls' = calls \cup {"run"}
                    /\ \/ /\ ~NameInUse(engine.containers, HelperName(mn.self_update_info.container.name))
                          /\ engine' = [engine EXCEPT !.containers =
                                           @ @@ (NewId(@) :>
                                               [name |-> HelperName(mn.self_update_info.container.name),
                                                image |-> RemoteImage(mn.self_update_info.new_image_reference),
                                                policy |-> "no", status |-> "running"])]
                          /\ UNCHANGED faults
                       \/ /\ Raises(NameInUse(engine.containers, HelperName(mn.self_update_info.container.name)))
                          /\ UNCHANGED engine
    /\ UNCHANGED <<fnVars, nm, cfg, registry, mn, rc, hist>>

\* cleanup.perform_cleanup: aged backups are removed, unused images pruned
\* as config.prune.removeOldContainers and removeUnusedImages, which only
\* this step reads, say
Cleanup ==
    /\ pc = "cleanup"
    /\ pc' = "done"
    /\ \E removeOldContainers \in BOOLEAN, removeUnusedImages \in BOOLEAN :
       LET aged == cleanup_backup_containers(engine.containers, cfg.dry_run, Prune(removeOldContainers, <<"4", "8", "h">>, 1), Now(rc.now + 1))
           removed == [engine EXCEPT !.containers = Restrict(@, DOMAIN @ \ aged)]
           prune == removeUnusedImages /\ ~cfg.dry_run
       IN  /\ calls' = calls \cup (IF aged # {} THEN {"remove"} ELSE {})
                             \cup (IF prune THEN {"prune"} ELSE {})
           /\ \/ /\ engine' = IF prune THEN PruneImages(removed) ELSE removed
                 /\ UNCHANGED faults
              \/ /\ aged # {}
                 /\ Fails
                 /\ engine' = IF prune THEN PruneImages(engine) ELSE engine
              \/ /\ prune
                 /\ Fails
                 /\ engine' = removed
    /\ UNCHANGED <<fnVars, nm, cfg, registry, mn, rc, hist>>

Next ==
    \/ GetContainers \/ BeginContainer \/ NextCandidate \/ PullImage
    \/ PreScript \/ Dispatch
    \/ RcRename \/ RcReload1 \/ RcUpdate \/ RcStop
    \/ RcCreate \/ RcGet \/ RcStart \/ RcVerify \/ RcPost
    \/ RbCleanup \/ RbRename \/ RbPolicy \/ RbStart
    \/ RecreateReturned \/ NextContainer \/ SelfUpdate \/ Cleanup

Spec == Init /\ [][Next]_vars

\* the same cycle over a list of two containers
SpecFleet == InitFleet /\ [][Next]_vars

\* the cycle of one running container with the restart policy 'always',
\* under an engine that may fail once more than MaxFaults times: faults
\* counts the failures, and begins one lower
InitRetry ==
    /\ fpc = "idle" /\ fin = <<>> /\ fout = <<>>
    /\ cfg \in {c \in Configurations :
                   /\ ~c.dry_run /\ c.self = 0 /\ c.filter_status = ""
                   /\ ~c.credentials /\ c.config.rules["default"].allow = AllowAll}
    /\ registry \in Registries
    /\ engine = [containers |-> InitialContainers("running", "always"),
                 images |-> {Image(ImageRef(RegistryTags[Len(RegistryTags)]), <<"h", Len(RegistryTags)>>),
                             Image(ImageRef(Ver3(0, 9, 0)), <<"h", -1>>)}]
    /\ calls = {}
    /\ faults = -1
    /\ pc = "start"
    /\ mn = main_locals
    /\ rc = recreate_locals
    /\ hist = <<>>
    /\ nm = update_stats

SpecRetry == InitRetry /\ [][Next]_vars

\* the registry's answers for a container on 1.0.0: a minor and then a patch
\* update after the tag it runs, or a list without the tag it runs
LadderRegistries ==
    { [k \in 1..Len(names) |->
          [name |-> names[k], id |-> k,
           digest |-> <<"sha256", <<"h", k>>>>, last_updated |-> <<7200>>]] :
      names \in { <<Ver3(1, 1, 1), Ver3(1, 1, 0), Ver3(1, 0, 0)>>,
                  <<Ver3(1, 1, 0), Ver3(0, 9, 0)>> } }

\* the cycle of one container, running or stopped, under these answers
InitLadder ==
    /\ fpc = "idle" /\ fin = <<>> /\ fout = <<>>
    /\ cfg \in {c \in Configurations :
                   /\ c.self = 0 /\ ~c.credentials
                   /\ c.config.rules["default"].allow = AllowAll}
    /\ registry \in LadderRegistries
    /\ \E status \in {"running", "exited"}, policy \in {"no", "always"} :
           engine = [containers |-> InitialContainers(status, policy),
                     images |-> {Image(ImageRef(RegistryTags[Len(RegistryTags)]), <<"h", Len(RegistryTags)>>),
                                 Image(ImageRef(Ver3(0, 9, 0)), <<"h", -1>>)}]
    /\ calls = {}
    /\ faults = 0
    /\ pc = "start"
    /\ mn = main_locals
    /\ rc = recreate_locals
    /\ hist = <<>>
    /\ nm = update_stats

SpecLadder == InitLadder /\ [][Next]_vars

---------------------------------------------------------------------------
(* The self-update helper: main() with ROLE=SELFUPDATEHELPER               *)
(* (app/__main__.py, app/utils/self_update.py)                             *)

\* the helper's container, running the image the producer pulled
HelperContainers(policy) ==
    FleetContainers(policy)
    @@
    (3 :> [name |-> HelperName(SelfName),
           image |-> Image(ImageRef(RegistryTags[1]), <<"h", 1>>),
           policy |-> "no", status |-> "running"])

\* os.environ of the helper process: TARGET_CONTAINER may be unset or name a
\* container that is gone, HOSTNAME may be no container id (0); tagged says
\* whether the helper's image has a tag
HelperEnvironments ==
    { [TARGET_CONTAINER |-> t, HOSTNAME |-> h, tagged |-> g] :
      t \in {None, SelfName, <<"gone">>}, h \in {0, 3}, g \in BOOLEAN }

InitHelper ==
    /\ fpc = "idle" /\ fout = <<>>
    /\ fin \in HelperEnvironments
    /\ cfg \in {c \in FleetConfigurations : c.self = 0}
    /\ registry \in {r \in Registries : r[Len(r)].digest[2][1] = "h"}
    /\ \E policy \in {"no", "always"} :
           engine = [containers |-> HelperContainers(policy),
                     images |-> {Image(ImageRef(RegistryTags[Len(RegistryTags)]), <<"h", Len(RegistryTags)>>),
                                 Image(ImageRef(RegistryTags[1]), <<"h", 1>>)}]
    /\ calls = {}
    /\ faults = 0
    /\ pc = "helper"
    /\ mn = main_locals
    /\ rc = recreate_locals
    /\ hist = <<>>
    /\ nm = update_stats

\* the process ends: os._exit(0) in the finally of
\* execute_self_update_from_helper, or main returns (dry-run, or no
\* TARGET_CONTAINER) and the interpreter ends with status 0
HelperExit ==
    /\ pc' = "exited"
    /\ fout' = [exit_status |-> 0]

\* main's helper branch and execute_self_update_from_helper up to its call
\* of recreate_container
HelperMain ==
    /\ pc = "helper"
    /\ LET target == {id \in DOMAIN engine.containers :
                         engine.containers[id].name = fin.TARGET_CONTAINER}
           helper_image == engine.containers[fin.HOSTNAME].image
       IN  IF fin.TARGET_CONTAINER = None \/ target = {} \/ fin.HOSTNAME = 0
           THEN HelperExit /\ UNCHANGED <<faults, mn, rc, hist>>
           ELSE \/ /\ Fails
                   /\ HelperExit
                   /\ UNCHANGED <<mn, rc, hist>>
                \/ /\ LET id == CHOOSE id \in target : TRUE
                      IN  /\ mn' = [main_locals EXCEPT
                                       !.container = Attrs(id),
                                       !.container_inspect_data = Attrs(id),
                                       !.local_digests = RepoDigests(engine.containers[id].image),
                                       !.remote_image_tags = <<registry[1]>>,
                                       !.i = 1,
                                       !.new_image_reference =
                                           IF fin.tagged THEN helper_image.ref
                                           ELSE <<"sha256", ":", helper_image.hash>>]
                          /\ rc' = [recreate_locals EXCEPT
                                       !.original_name = engine.containers[id].name,
                                       !.backup_name = get_container_backup_name(engine.containers[id].name, Now(rc.now + 1)),
                                       !.now = rc.now + 1,
                                       !.original_restart_policy = engine.containers[id].policy,
                                       !.before = engine.containers[id]]
                          /\ hist' = Append(hist, <<"recreate", 1, id>>)
                   /\ pc' = "rc_rename"
                   /\ UNCHANGED <<faults, fout>>
    /\ UNCHANGED <<fpc, fin, nm, cfg, registry, engine, calls>>

\* recreate_container returned to the helper: the result is logged and the
\* process ends
HelperReturned ==
    /\ pc = "rc_return"
    /\ HelperExit
    /\ UNCHANGED <<fpc, fin, nm, cfg, registry, engine, calls, faults, mn, rc, hist>>

NextHelper ==
    \/ HelperMain
    \/ RcRename \/ RcReload1 \/ RcUpdate \/ RcStop
    \/ RcCreate \/ RcGet \/ RcStart \/ RcVerify \/ RcPost
    \/ RbCleanup \/ RbRename \/ RbPolicy \/ RbStart
    \/ HelperReturned

SpecHelper == InitHelper /\ [][NextHelper]_vars

---------------------------------------------------------------------------
(* is_self_container (app/utils/engines/docker.py)                         *)

\* bound: the length of a full container id (64 in the source)
FullIdLength == 3

\* the characters of a container id
HexChars == {"a", "b"}

\* hostname.lstrip("/")
lstrip_slash(s) ==
    IF \A k \in 1..Len(s) : s[k] = "/" THEN <<>>
    ELSE SubSeq(s, CHOOSE k \in 1..Len(s) : s[k] # "/" /\ \A j \in 1..(k - 1) : s[j] = "/", Len(s))

\* identifier in container_name
IsSubstring(part, whole) ==
    \E k \in 0..(Len(whole) - Len(part)) : SubSeq(whole, k + 1, k + Len(part)) = part

\* container_id.startswith(identifier)
startswith(s, prefix) == Len(prefix) <= Len(s) /\ SubSeq(s, 1, Len(prefix)) = prefix

\* a line of a cgroup file is the sequence of its parts between slashes
\* "docker" in line or "containerd" in line
NamesDocker(line) ==
    \E k \in 1..Len(line) : \E t \in 1..Len(line[k]) :
        line[k][t] \in {"docker", "docker-", "containerd"}

\* part.startswith("docker-") and part.endswith(".scope")
IsScopePart(part) == Len(part) >= 2 /\ part[1] = "docker-" /\ part[Len(part)] = ".scope"

\* len(part) == 64 and all(c in "0123456789abcdef" for c in part)
IsFullId(part) == Len(part) = FullIdLength /\ \A t \in 1..Len(part) : part[t] \in HexChars

\* the loop over the lines of one cgroup file: the first scope part or full
\* id of a line is appended; a scope part is assigned to container_id
RECURSIVE ReadCgroup(_, _, _)
ReadCgroup(lines, k, acc) ==
    IF k > Len(lines) THEN acc
    ELSE LET line == lines[k]
             hits == {t \in 1..Len(line) : IsScopePart(line[t]) \/ IsFullId(line[t])}
         IN  IF ~NamesDocker(line) \/ hits = {}
             THEN ReadCgroup(lines, k + 1, acc)
             ELSE LET part == line[CHOOSE t \in hits : \A u \in hits : t <= u]
                  IN  IF IsScopePart(part)
                      THEN ReadCgroup(lines, k + 1,
                               [possible_identifiers |-> Append(acc.possible_identifiers, SubSeq(part, 2, Len(part) - 1)),
                                container_id |-> SubSeq(part, 2, Len(part) - 1)])
                      ELSE ReadCgroup(lines, k + 1,
                               [acc EXCEPT !.possible_identifiers = Append(@, part)])

\* the identifiers collected from HOSTNAME, os.uname().nodename,
\* /proc/self/cgroup and /proc/1/cgroup, and container_id as it then is
CollectIdentifiers(env, container_id) ==
    LET by_hostname == IF env.HOSTNAME # <<>> THEN <<lstrip_slash(env.HOSTNAME)>> ELSE <<>>
        by_nodename == IF env.nodename # <<>>
                          /\ \A k \in 1..Len(by_hostname) : by_hostname[k] # env.nodename
                       THEN Append(by_hostname, lstrip_slash(env.nodename))
                       ELSE by_hostname
    IN  ReadCgroup(env.cgroup_1, 1,
            ReadCgroup(env.cgroup_self, 1,
                [possible_identifiers |-> by_nodename, container_id |-> container_id]))

\* is_self_container(container_name, container_id) in the environment env
\* of the running process
is_self_container_in(env, container_name, container_id) ==
    LET collected == CollectIdentifiers(env, container_id)
        possible_identifiers == collected.possible_identifiers
        Some(match(_)) == \E k \in 1..Len(possible_identifiers) : match(possible_identifiers[k])
    IN  IF ~env.dockerenv THEN FALSE
        ELSE IF Some(LAMBDA identifier : container_name = identifier) THEN TRUE
        ELSE IF collected.container_id # <<>>
                /\ Some(LAMBDA identifier : collected.container_id = identifier) THEN TRUE
        ELSE IF Some(LAMBDA identifier : \/ IsSubstring(container_name, identifier)
                                         \/ IsSubstring(identifier, container_name)) THEN TRUE
        ELSE IF collected.container_id # <<>>
                /\ Some(LAMBDA identifier : startswith(collected.container_id, identifier)) THEN TRUE
        ELSE FALSE

\* the process runs in the container with the id "aab", or on the host
OwnId == <<"a", "a", "b">>

\* the cgroup files: none or without a docker line, the systemd layout with
\* a docker-<id>.scope part, and the cgroupfs layout with the full id
CgroupFiles ==
    { <<>>,
      << <<<<"0::">>, <<"init.scope">>>> >>,
      << <<<<"0::">>, <<"system.slice">>, <<"docker-">> \o OwnId \o <<".scope">>>> >>,
      << <<<<"12:pids:">>, <<"docker">>, OwnId>> >> }

\* HOSTNAME and nodename: unset, the short id Docker gives, or a hostname
\* the operator chose
Hostnames == { <<>>, <<"a", "a">>, <<"b">>, <<"/", "b">> }

SelfEnvironments ==
    [dockerenv : BOOLEAN, HOSTNAME : Hostnames, nodename : Hostnames,
     cgroup_self : CgroupFiles, cgroup_1 : CgroupFiles]

\* the containers asked about: names and ids
SelfCandidates ==
    { [name |-> n, id |-> i] :
        n \in {<<"a">>, <<"b">>, <<"a", "b">>, <<"b", "b">>, <<"a", "a">>},
        i \in {OwnId, <<"b", "a", "b">>, <<"a", "b", "a">>} }

InitSelf ==
    /\ fpc = "call"
    /\ \E env \in SelfEnvironments, candidate \in SelfCandidates :
           fin = [env |-> env, container_name |-> candidate.name, container_id |-> candidate.id]
    /\ fout = [none |-> TRUE]
    /\ OrcIdle

SelfCall ==
    /\ fpc = "call"
    /\ fpc' = "return"
    /\ fout' = [result |-> is_self_container_in(fin.env, fin.container_name, fin.container_id)]
    /\ UNCHANGED <<fin, orcVars>>

SpecSelf == InitSelf /\ [][SelfCall]_vars

---------------------------------------------------------------------------
(* The scheduler thread (app/utils/scheduler.py)                           *)

\* bounds: the clock, the slice of the sleep loop (10 s in the source), the
\* pause after an invalid expression (300 s), the duration of a cycle, and
\* the edits of the configuration file
MaxTime == 9
SleepInterval == 2
InvalidPause == 3
MaxCycleTime == 2
MaxEdits == 2

\* cron expressions: one that fires at every multiple of 3, one at every
\* multiple of 4, and one that croniter rejects
CronExpressions == {"*/3", "*/4", "invalid"}

\* croniter(cron_expression, now).get_next(): the first fire time after now
get_next(cron_expression, now) ==
    LET period == IF cron_expression = "*/3" THEN 3 ELSE 4
    IN  (now \div period + 1) * period

\* CaptnScheduler after start(): running, no schedule seen yet
InitSched ==
    /\ fpc = "top"
    /\ \E cronSchedule \in CronExpressions : fin = [cronSchedule |-> cronSchedule, edits |-> 0]
    /\ fout = [running |-> TRUE, current_schedule |-> None, now |-> 0,
               cron_expression |-> None, next_run |-> 0, sleep_seconds |-> 0,
               runs |-> <<>>]
    /\ OrcIdle

\* the configuration file gets another cronSchedule
EditSchedule ==
    /\ fin.edits < MaxEdits
    /\ fpc # "exited"
    /\ \E cronSchedule \in CronExpressions \ {fin.cronSchedule} :
           fin' = [cronSchedule |-> cronSchedule, edits |-> fin.edits + 1]
    /\ UNCHANGED <<fpc, fout, orcVars>>

\* stop(): the flag is cleared
StopScheduler ==
    /\ fout.running
    /\ fout' = [fout EXCEPT !.running = FALSE]
    /\ UNCHANGED <<fpc, fin, orcVars>>

\* the head of the outer loop: reload, take the schedule, compute the next
\* run and the time to sleep; a ValueError of croniter sleeps and retries
SchedulerTop ==
    /\ fpc = "top"
    /\ IF ~fout.running \/ fout.now >= MaxTime
       THEN fpc' = "exited" /\ UNCHANGED fout
       ELSE LET seen == [fout EXCEPT !.current_schedule = fin.cronSchedule,
                                     !.cron_expression = fin.cronSchedule]
            IN  IF fin.cronSchedule = "invalid"
                THEN /\ fout' = [seen EXCEPT !.now = @ + InvalidPause]
                     /\ fpc' = "top"
                ELSE /\ fout' = [seen EXCEPT
                                    !.next_run = get_next(fin.cronSchedule, fout.now),
                                    !.sleep_seconds = get_next(fin.cronSchedule, fout.now) - fout.now]
                     /\ fpc' = "sleep"
    /\ UNCHANGED <<fin, orcVars>>

\* one pass through the sleep loop: the loop test, the sleep of one slice,
\* the reload and the comparison with the schedule seen before
SchedulerSleep ==
    /\ fpc = "sleep"
    /\ IF fout.sleep_seconds > 0 /\ fout.running
       THEN LET sleep_interval == IF fout.sleep_seconds < SleepInterval
                                  THEN fout.sleep_seconds ELSE SleepInterval
                slept == [fout EXCEPT !.now = @ + sleep_interval,
                                      !.sleep_seconds = @ - sleep_interval]
            IN  IF fin.cronSchedule # fout.current_schedule
                THEN /\ fout' = [slept EXCEPT !.current_schedule = fin.cronSchedule]
                     /\ fpc' = "fire"
                ELSE fout' = slept /\ fpc' = "sleep"
       ELSE fpc' = "fire" /\ UNCHANGED fout
    /\ UNCHANGED <<fin, orcVars>>

\* after the sleep loop: if self.running, execute_captn starts the cycle as
\* a subprocess
SchedulerFire ==
    /\ fpc = "fire"
    /\ IF fout.running
       THEN /\ fout' = [fout EXCEPT !.runs =
                           Append(@, [start |-> fout.now, end |-> None,
                                      next_run |-> fout.next_run,
                                      cron_expression |-> fout.cron_expression,
                                      current_schedule |-> fout.current_schedule])]
            /\ fpc' = "cycle"
       ELSE fpc' = "top" /\ UNCHANGED fout
    /\ UNCHANGED <<fin, orcVars>>

\* execute_captn: subprocess.run returns when the cycle has ended
execute_captn ==
    /\ fpc = "cycle"
    /\ \E d \in 0..MaxCycleTime :
           fout' = [fout EXCEPT !.now = @ + d,
                                !.runs[Len(fout.runs)].end = <<fout.now + d>>]
    /\ fpc' = "top"
    /\ UNCHANGED <<fin, orcVars>>

NextSched ==
    \/ EditSchedule \/ StopScheduler
    \/ SchedulerTop \/ SchedulerSleep \/ SchedulerFire \/ execute_captn

SpecSched == InitSched /\ [][NextSched]_vars

---------------------------------------------------------------------------
(* Properties of the cycle (Spec)                                          *)

\* C1: whenever recreate_container reports success in a non-dry-run cycle,
\* the new container's name is the name the updated container had before
\* the cycle's first recreate attempt, also after an earlier failed recreate
\* or failed rollback.
C1_LiveNameIsOriginal ==
    (pc = "rc_return" /\ rc.result = "ok" /\ ~cfg.dry_run)
        => engine.containers[rc.new_container].name = ContainerName

\* C2: after a recreate that fails in create/start/verify and a rollback
\* that completes without error, the original container has its original
\* name, image, restart policy and run state (running or not), and no other
\* container holds the original name.
C2_RollbackRestores ==
    (/\ pc = "rc_return"
     /\ rc.failed_in = "create"
     /\ rc.rollback = "successful" /\ ~rc.rollback_errors)
        => /\ engine.containers[cid].name = rc.before.name
           /\ engine.containers[cid].image = rc.before.image
           /\ engine.containers[cid].policy = rc.before.policy
           /\ (engine.containers[cid].status = "running")
                  = (rc.before.status = "running")
           /\ \A id \in DOMAIN engine.containers :
                  engine.containers[id].name = rc.before.name => id = cid

\* C3: a dry-run cycle issues no mutating engine call and leaves the
\* engine's containers and images as they were.
C3_DryRunMutatesNothing ==
    [][cfg.dry_run => (calls = {} /\ calls' = {} /\ engine' = engine)]_vars

\* a dry-run cycle that walked the recreate path and the cleanup to its end
C3_Witness ==
    /\ cfg.dry_run
    /\ pc = "done"
    /\ mn.self_update_info = <<>>
    /\ \E p \in 1..Len(hist) : hist[p][1] = "success"
    /\ calls = {}

\* C10: with progressiveUpgrade=false, at most one candidate is recreated
\* successfully, and after it no candidate is authorized, pulled or
\* recreated.
C10_OneSuccessThenStop ==
    ~Get(cfg.config.rules["default"], "progressiveUpgrade", TRUE)
        => \A p \in 1..Len(hist) : hist[p][1] = "success" => p = Len(hist)

\* the cycle ended after a success that left newer candidates untried
C10_Witness ==
    /\ ~Get(cfg.config.rules["default"], "progressiveUpgrade", TRUE)
    /\ pc = "done"
    /\ Len(hist) > 0
    /\ hist[Len(hist)][1] = "success"
    /\ hist[Len(hist)][2] < Len(mn.remote_image_tags)

\* the update outcomes recorded with a status
Outcomes(status) ==
    Cardinality({k \in 1..Len(nm.update_details) : nm.update_details[k] = status})

\* C20: at every point of a cycle containers_updated is the number of
\* recorded update outcomes with status succeeded and containers_failed the
\* number of recorded outcomes with status failed, so that one failed update
\* attempt changes containers_failed by exactly one.
C20_CountersMatchOutcomes ==
    /\ nm.containers_updated = Outcomes("succeeded")
    /\ nm.containers_failed = Outcomes("failed")

\* C12: at the end of every cycle the cleanup is skipped if and only if a
\* self-update was parked in that cycle: a cycle ends through
\* perform_cleanup exactly when no self-update is pending.
C12_CleanupIffNoSelfUpdate ==
    [][(pc # "done" /\ pc' = "done")
           => ((pc = "cleanup") <=> (mn.self_update_info = <<>>))]_vars

\* the original of the running recreate carries the backup name, has the
\* restart policy 'no' and does not run
OriginalPrepared ==
    /\ engine.containers[cid].name = rc.backup_name
    /\ IsBackupName(engine.containers[cid].name)
    /\ engine.containers[cid].policy = "no"
    /\ engine.containers[cid].status # "running"

\* control is in recreate_container or in its rollback
InRecreate ==
    pc \in {"rc_rename", "rc_reload1", "rc_update", "rc_stop", "rc_create", "rc_get",
            "rc_start", "rc_verify", "rc_post", "rb_cleanup", "rb_rename", "rb_policy",
            "rb_start", "rc_return"}

\* the original and the container created for it do not both run and do not
\* both carry the original name
NeverBoth ==
    (InRecreate /\ rc.response \in DOMAIN engine.containers) =>
        /\ ~(engine.containers[cid].status = "running"
             /\ engine.containers[rc.response].status = "running")
        /\ ~(engine.containers[cid].name = rc.original_name
             /\ engine.containers[rc.response].name = rc.original_name)

\* C25: recreate_container creates and starts the new container only after
\* the original was renamed to <name>_bak_cu_<timestamp>, its restart policy
\* set to 'no' and it was stopped; at no point of the recreate or of the
\* rollback do the original and the new container both run or both carry the
\* original name.
C25_NewOnlyAfterOriginalParked ==
    [][/\ NeverBoth'
       /\ (pc \in {"rc_create", "rc_start"} /\ engine' # engine) => OriginalPrepared]_vars

---------------------------------------------------------------------------
(* Properties of the cycle over a list of containers (SpecFleet)           *)

\* the helper containers the engine holds
Helpers ==
    {id \in DOMAIN engine.containers :
        engine.containers[id].name = HelperName(SelfName)}

\* the positions of hist at which a candidate of the engine's own container
\* was parked
Parked == {p \in 1..Len(hist) : hist[p][1] = "parked" /\ hist[p][3] = cfg.self}

C19_FailureAbandonsOne ==
    /\ pc # "crashed"
    /\ (pc \in {"self_update", "cleanup", "done"} /\ mn.containers # <<>>)
           => mn.k = Len(mn.containers)

\* C21: if the helper container cannot be created (the producer asked the
\* engine to run it and the engine holds no new container), the cleanup runs
\* normally at the end of that cycle.
C21_CleanupAfterFailedHelper ==
    [][(/\ pc = "self_update"
        /\ mn.self_update_info # <<>>
        /\ "run" \in calls'
        /\ engine' = engine)
           => pc' = "cleanup"]_vars

\* the positions of hist at which recreate_container returned a container
Successes == {p \in 1..Len(hist) : hist[p][1] = "success"}

\* the candidate whose recreate succeeded last
LastSuccess ==
    mn.remote_image_tags[Len(mn.remote_image_tags) + 1
                             - hist[CHOOSE p \in Successes : \A q \in Successes : q <= p][2]]

\* the tag the container had at the start of the cycle
CycleStartTag == RegistryTags[Len(RegistryTags)]

\* C32: the candidates are taken oldest to newest, and every candidate is
\* classified and authorized against the version of the last candidate whose
\* recreate succeeded (tag, and in a real cycle the digests of the container
\* then running), or against the tag of the cycle start when none succeeded:
\* a rejected or failed candidate changes nothing for the next one.
C32_ClassifiedAgainstLastSuccess ==
    (pc = "candidate" /\ mn.i <= Len(mn.remote_image_tags)) =>
        /\ \A a, b \in 1..Len(mn.remote_image_tags) :
               a < b => ~TupleLess(TupleOf(mn.remote_image_tags, a), TupleOf(mn.remote_image_tags, b))
        /\ OldVersion = IF Successes = {} THEN CycleStartTag ELSE LastSuccess.name
        /\ ~cfg.dry_run =>
               mn.local_digests =
                   IF Successes = {}
                   THEN RepoDigests(Image(ImageRef(CycleStartTag), <<"h", Len(RegistryTags)>>))
                   ELSE RepoDigests(Image(ImageRef(LastSuccess.name), LastSuccess.digest[2]))

\* C38: once a rollback has failed for a container, main does not enter
\* recreate_container for it again in the cycle, so that nothing renames,
\* creates or starts on it, whatever progressiveUpgrade says and however
\* many candidates remain.
C38_NoRecreateAfterFailedRollback ==
    [][(pc = "recreate" /\ rc.rollback = "failed" /\ rc.original_name = mn.container.name)
           => pc' # "rc_rename"]_vars

\* C37: a container is never recreated with a candidate whose normalized
\* version tuple is lower than that of the tag it runs when the recreate
\* begins, whatever the registry answered, also when the tag it runs is not
\* among the fetched tags: the running version never decreases.
C37_VersionNeverDecreases ==
    (rc # <<>> /\ rc.response # 0 /\ rc.response \in DOMAIN engine.containers) =>
        ~TupleLess(normalize_version(engine.containers[rc.response].image.ref[3]),
                   normalize_version(rc.before.image.ref[3]))

\* C40: in a cycle that is not a dry-run an update outcome with status
\* succeeded is recorded only in the step in which recreate_container has
\* returned a new container that was created from the candidate image,
\* started and verified in this cycle: nothing is recorded as succeeded for
\* an update that has not been executed yet.
C40_SucceededOnlyAfterRecreate ==
    [][(/\ ~cfg.dry_run
        /\ Len(nm'.update_details) > Len(nm.update_details)
        /\ nm'.update_details[Len(nm'.update_details)] = "succeeded")
           => /\ pc = "rc_return"
              /\ rc.result = "ok"
              /\ {"create", "start"} \subseteq calls
              /\ rc.new_container \in DOMAIN engine.containers
              /\ engine.containers[rc.new_container].image.ref = mn.new_image_reference
              /\ engine.containers[rc.new_container].status = "running"]_vars

\* no call of the engine has failed, and the cycle so far is a dry-run, or a
\* real cycle in which every authorized candidate was pulled, recreated,
\* verified and read again
AllSucceeded ==
    /\ faults = 0
    /\ \/ cfg.dry_run
       \/ /\ Cardinality({p \in 1..Len(hist) : hist[p][1] = "authorized"}) = Cardinality(Successes)
          /\ Cardinality(Successes) = Outcomes("succeeded")

\* the k-th candidate, oldest first
Nth(k) == mn.remote_image_tags[Len(mn.remote_image_tags) + 1 - k]

\* the category of the k-th candidate for a container running tag with digests
CategoryFor(k, tag, digests) == get_update_type(tag, Nth(k).name, digests, Nth(k).digest)

\* the permit of the k-th candidate for a container running tag
PermitFor(k, tag, category) ==
    get_update_permit(cfg.config, ContainerName, ImageRef(tag), category,
                      image_age(Nth(k).last_updated), tag, Nth(k).name,
                      mn.remote_image_tags[1].name)

\* what the container runs before the k-th candidate of a real cycle in
\* which everything succeeds, and whether that cycle has left the loop
RECURSIVE RealBefore(_)
RealBefore(k) ==
    IF k = 1
    THEN [tag |-> CycleStartTag,
          digests |-> RepoDigests(Image(ImageRef(CycleStartTag), <<"h", Len(RegistryTags)>>)),
          stopped |-> FALSE]
    ELSE LET before == RealBefore(k - 1)
             category == CategoryFor(k - 1, before.tag, before.digests)
             permit == PermitFor(k - 1, before.tag, category)
         IN  IF before.stopped \/ category \in {"unknown", "none"} \/ ~permit.allowed
             THEN before
             ELSE [tag |-> Nth(k - 1).name,
                   digests |-> RepoDigests(Image(permit.new_image_reference, Nth(k - 1).digest[2])),
                   stopped |-> \/ cfg.self = 1
                               \/ progressive_break(Get(cfg.config.rules, permit.rule_name, EmptyDict),
                                                    k - 2, Len(mn.remote_image_tags))]

\* (candidate, category, permit decision) as the cycle is about to take it
DecisionNow ==
    LET category == CategoryFor(mn.i, OldVersion, mn.local_digests)
    IN  <<Candidate.name, category,
          get_update_permit(cfg.config, mn.container.name, mn.reference, category,
                            image_age(Candidate.last_updated), OldVersion, Candidate.name,
                            mn.remote_image_tags[1].name).allowed>>

\* the same triple of the real cycle in which everything succeeds
RealDecision(k) ==
    LET category == CategoryFor(k, RealBefore(k).tag, RealBefore(k).digests)
    IN  <<Nth(k).name, category, PermitFor(k, RealBefore(k).tag, category).allowed>>

\* C33: a dry-run cycle takes the candidates, categories and permit
\* decisions of the real cycle in which every pull, hook, recreate and
\* verification succeeds, and stops where that cycle stops; the virtual tag
\* after each simulated success is the tag the real container would run.
C33_DryRunFollowsRealCycle ==
    AllSucceeded =>
        /\ (pc = "candidate" /\ mn.i <= Len(mn.remote_image_tags)) =>
               /\ ~RealBefore(mn.i).stopped
               /\ DecisionNow = RealDecision(mn.i)
               /\ (cfg.dry_run /\ Successes # {}) => mn.virtual_tag = LastSuccess.name
        /\ (pc = "next" /\ mn.i \in 1..Len(mn.remote_image_tags)) =>
               RealBefore(mn.i + 1).stopped

---------------------------------------------------------------------------
(* Properties of the self-update helper (SpecHelper)                       *)

\* C22: the helper process ends with status zero only after
\* recreate_container replaced the producer; when the target is not found,
\* the helper's image cannot be resolved, or the recreate failed and was
\* rolled back, it ends with a non-zero status.
C22_HelperExitStatus ==
    pc = "exited" => ((fout.exit_status = 0) <=> (rc.result = "ok"))

---------------------------------------------------------------------------
(* Properties of verify_container_start (SpecVerify, SpecVerifyFair)       *)

\* the k-th sample was taken from a container that is up, and healthy when it
\* has a healthcheck
SampleUp(k) ==
    /\ fout.samples[k].state.Status \in {"running", "starting"}
    /\ fout.samples[k].state.Health \in {"none", "healthy"}

\* the k-th sample shows a restart, a changed StartedAt, a container that is
\* not up, or an unhealthy one
SampleBad(k) ==
    \/ k > 1 /\ fout.samples[k].state.RestartCount > fout.samples[k - 1].state.RestartCount
    \/ k > 1 /\ fout.samples[k].state.StartedAt # fout.samples[k - 1].state.StartedAt
    \/ fout.samples[k].state.Status \notin {"running", "starting"}
    \/ fout.samples[k].state.Health = "unhealthy"

\* C26: verify_container_start returns success only if the samples end in a
\* window of at least stableTime in which every sample showed a status of
\* running or starting, the RestartCount and StartedAt of the window's first
\* sample, and health 'healthy' when the container has a healthcheck; a
\* sample that shows a restart, a changed StartedAt, another status or
\* 'unhealthy' ends the verification as a failure.
C26_SuccessNeedsStableWindow ==
    fpc \in {"loop", "return"} =>
        LET n == Len(fout.samples)
        IN  /\ fout.result = "success" =>
                \E w \in 1..n :
                    /\ fout.samples[n].t - fout.samples[w].t >= fin.config.stable_time
                    /\ \A k \in w..n :
                           /\ SampleUp(k)
                           /\ fout.samples[k].state.RestartCount = fout.samples[w].state.RestartCount
                           /\ fout.samples[k].state.StartedAt = fout.samples[w].state.StartedAt
            /\ \A k \in 1..n :
                   SampleBad(k) =>
                       /\ k = n
                       /\ fpc = "return"
                       /\ fout.result \in {"restarted", "manually restarted", "not running", "unhealthy"}

\* a container with a healthcheck that was still starting at a sample and
\* healthy over a window of stableTime > 0 after it
C26_Witness ==
    /\ fpc = "return"
    /\ fout.result = "success"
    /\ fin.config.stable_time > 0
    /\ Len(fout.samples) >= 3
    /\ fout.samples[1].state.Health = "starting"

---------------------------------------------------------------------------
(* Properties of the scheduler (SpecSched)                                 *)

\* C35: every cycle the scheduler thread starts begins when the time has
\* reached the fire time computed from the cron expression then current,
\* with the scheduler running; a schedule changed during the sleep is
\* answered by a new computation, not by a cycle; and a cycle begins only
\* after the one before it has ended.
C35_CycleOnlyWhenDue ==
    fpc \in {"top", "sleep", "fire", "cycle", "exited"} =>
        \A k \in 1..Len(fout.runs) :
            /\ fout.runs[k].start >= fout.runs[k].next_run
            /\ fout.runs[k].cron_expression = fout.runs[k].current_schedule
            /\ k > 1 => /\ fout.runs[k - 1].end # None
                        /\ fout.runs[k - 1].end[1] <= fout.runs[k].start

---------------------------------------------------------------------------
(* Properties of is_self_container (SpecSelf)                              *)

\* C36: is_self_container answers true only if /.dockerenv is there and one
\* of the identifiers of the running process equals the name of the
\* container asked about, equals its id, or is a prefix of its id; a name
\* that contains an identifier, or is contained in one, does not make the
\* container the own one.
C36_SelfOnlyByNameIdOrPrefix ==
    (fpc = "return" /\ fout.result) =>
        LET ids == CollectIdentifiers(fin.env, fin.container_id).possible_identifiers
        IN  /\ fin.env.dockerenv
            /\ \E k \in 1..Len(ids) :
                   \/ ids[k] = fin.container_name
                   \/ ids[k] = fin.container_id
                   \/ startswith(fin.container_id, ids[k])

=============================================================================
